---- MODULE Spec2Model ----
(***************************************************************************)
(* Dynamical-decoupling rewrite pipeline of qiskit.ignis.mitigation.dd.    *)
(*                                                                         *)
(* A DAGCircuit is modelled by the sequence of its operation nodes in the  *)
(* order topological_op_nodes() yields them; apply_operation_back appends  *)
(* to that sequence and apply_operation_front prepends to it.  The wire of *)
(* a qubit is the subsequence of the nodes whose qargs hold the qubit.     *)
(*                                                                         *)
(* Python floats are modelled by exact rationals with denominator TickNs:  *)
(* the integer x stands for the float x / TickNs.                          *)
(***************************************************************************)
EXTENDS Integers, Sequences, FiniteSets, TLC

\* ------------------------------------------------------------------ bounds

\* Longest list of operation nodes a pass is given.
MaxLen == 3
\* Largest calibrated gate length (in dt) and largest Delay duration.
MaxDur == 3
\* The backend's dt, in nanoseconds: a Delay of k ns lasts k / TickNs dt.
TickNs == 2
MaxNodes == 2
Grain == 4
AbsoluteError == 1
MaxRep == 3

\* Largest duration (in dt) of a fixed dynamical-decoupling component on qubit 0.
MaxPulse == 2
\* Largest relative scale given to a scalable component.
MaxScale == 2
\* Largest total_duration_dt a sequence is asked to fill.
MaxTotal == 6

\* The qubits of the register (dag.qubits), by index.
Qubits == {0, 1}

\* The qubit indices in increasing order, as enumerate(times_dt) yields them.
QubitSeq == [i \in 1..Cardinality(Qubits) |-> i - 1]

QubitSets == SUBSET Qubits \ {{}}

\* ------------------------------------------------------------------- nodes

\* A DAG operation node: name, qargs, and the op's duration and unit (Delay
\* only).  A gate carries in `length` the value that
\* properties.gate_length(name, qubits) has for it, in dt.
BarrierNode(Q) ==
    [name |-> "barrier", qargs |-> Q, duration |-> 0, unit |-> "dt", length |-> 0]

MeasureNode(q) ==
    [name |-> "measure", qargs |-> {q}, duration |-> 0, unit |-> "dt", length |-> 0]

GateNode(Q, d) ==
    [name |-> "gate", qargs |-> Q, duration |-> 0, unit |-> "dt", length |-> d]

\* qiskit.circuit.delay.Delay(duration, unit) on one qubit.
Delay(q, duration, unit) ==
    [name |-> "delay", qargs |-> {q}, duration |-> duration, unit |-> unit, length |-> 0]

\* ----------------------------------------------------------------- helpers

RECURSIVE Reverse(_)
Reverse(s) == IF s = <<>> THEN <<>> ELSE Append(Reverse(Tail(s)), Head(s))

\* max(f[q] for q in S), S not empty.
MaxOver(S, f) == CHOOSE m \in {f[q] : q \in S} : \A q \in S : f[q] <= m

\* The wire of qubit q: the nodes of the graph that act on q, in order.
OnQubit(g, q) == SelectSeq(g, LAMBDA n : q \in n.qargs)

IsDelay(n) == n.name = "delay"

\* ------------------------------------------------------- time conversion

\* _utils.to_dt_float: the float x / TickNs is returned as x.
to_dt_float(time, unit) == IF unit = "dt" THEN time * TickNs ELSE time

\* int() of the non-negative float x / TickNs.
IntOf(x) == x \div TickNs

\* ------------------------------------------------------ BarriersToDelays

\* A slip: apply_operation_back whatever the scheduling method.
InsertNodeBack(method, dag, node) == Append(dag, node)

\* insertion_method(output_dag_circuit, op, qargs): apply_operation_front when
\* the scheduling method is "alap", apply_operation_back otherwise.
InsertNode(method, dag, node) ==
    IF method = "alap" THEN <<node>> \o dag ELSE Append(dag, node)

\* A loop of insertion_method calls, one per node of ns, in order.
RECURSIVE InsertAll(_, _, _)
InsertAll(method, dag, ns) ==
    IF ns = <<>> THEN dag
    ELSE InsertAll(method, InsertNode(method, dag, Head(ns)), Tail(ns))

\* A slip: no delay is added for the qubits that are behind.
NoLateDelays(times) == <<>>

\* The delays of `for qubit_index, time_dt in enumerate(times_dt)`:
\* Delay(max_time_dt - time_dt, unit="dt") on every qubit.
LateDelays(times) ==
    LET max_time_dt == MaxOver(Qubits, times)
    IN  [i \in 1..Len(QubitSeq) |->
            Delay(QubitSeq[i], max_time_dt - times[QubitSeq[i]], "dt")]

\* A slip: the barrier's delays are inserted and times_dt is not updated.
VisitBarrierKeepTimes(method, st) ==
    [times |-> st.times,
     out   |-> InsertAll(method, st.out, LateDelays(st.times))]

\* node.name == "barrier"
VisitBarrier(method, st) ==
    [times |-> [q \in Qubits |-> MaxOver(Qubits, st.times)],
     out   |-> InsertAll(method, st.out, LateDelays(st.times))]

\* A slip: a measurement is skipped instead of passed through.
VisitMeasureDropped(method, st, node) == st

\* node.name == "measure"
VisitMeasure(method, st, node) ==
    [times |-> st.times, out |-> InsertNode(method, st.out, node)]

\* A slip: the operation is inserted inside the loop over its qubits, once
\* per qubit.
VisitGateInsertPerQubit(method, st, node) ==
    LET max_start_time_dt == MaxOver(node.qargs, st.times)
        involved == SelectSeq(QubitSeq, LAMBDA q : q \in node.qargs)
        perQubit(q) ==
            IF st.times[q] < max_start_time_dt
            THEN <<Delay(q, max_start_time_dt - st.times[q], "dt"), node>>
            ELSE <<node>>
        RECURSIVE Flat(_)
        Flat(qs) == IF qs = <<>> THEN <<>> ELSE perQubit(Head(qs)) \o Flat(Tail(qs))
    IN  [times |-> [q \in Qubits |->
                      IF q \in node.qargs
                      THEN max_start_time_dt + node.length
                      ELSE st.times[q]],
         out   |-> InsertAll(method, st.out, Flat(involved))]

\* A slip: the end time is counted from the qubit's own time, not from the
\* latest start time of the qubits involved.
VisitGateNoSync(method, st, node) ==
    LET max_start_time_dt == MaxOver(node.qargs, st.times)
        late == SelectSeq(QubitSeq,
                    LAMBDA q : q \in node.qargs /\ st.times[q] < max_start_time_dt)
        delays == [i \in 1..Len(late) |->
                      Delay(late[i], max_start_time_dt - st.times[late[i]], "dt")]
    IN  [times |-> [q \in Qubits |->
                      IF q \in node.qargs
                      THEN st.times[q] + node.length
                      ELSE st.times[q]],
         out   |-> InsertNode(method, InsertAll(method, st.out, delays), node)]

\* A slip: the delays of the late qubits are added after the operation.
VisitGateDelaysAfter(method, st, node) ==
    LET max_start_time_dt == MaxOver(node.qargs, st.times)
        late == SelectSeq(QubitSeq,
                    LAMBDA q : q \in node.qargs /\ st.times[q] < max_start_time_dt)
        delays == [i \in 1..Len(late) |->
                      Delay(late[i], max_start_time_dt - st.times[late[i]], "dt")]
    IN  [times |-> [q \in Qubits |->
                      IF q \in node.qargs
                      THEN max_start_time_dt + node.length
                      ELSE st.times[q]],
         out   |-> InsertAll(method, InsertNode(method, st.out, node), delays)]

\* Any other node: delays on the late qubits of the node, then the node.
VisitGate(method, st, node) ==
    LET max_start_time_dt == MaxOver(node.qargs, st.times)
        late == SelectSeq(QubitSeq,
                    LAMBDA q : q \in node.qargs /\ st.times[q] < max_start_time_dt)
        delays == [i \in 1..Len(late) |->
                      Delay(late[i], max_start_time_dt - st.times[late[i]], "dt")]
    IN  [times |-> [q \in Qubits |->
                      IF q \in node.qargs
                      THEN max_start_time_dt + node.length
                      ELSE st.times[q]],
         out   |-> InsertNode(method, InsertAll(method, st.out, delays), node)]

\* A slip: the remaining delays are forgotten.
NoFinalFlush(method, st) == st

\* "Do not forget to add the remaining delays."
FinalFlush(method, st) ==
    [times |-> st.times, out |-> InsertAll(method, st.out, LateDelays(st.times))]

VisitNode(method, st, node) ==
    IF node.name = "barrier" THEN VisitBarrier(method, st)
    ELSE IF node.name = "measure" THEN VisitMeasure(method, st, node)
    ELSE VisitGate(method, st, node)

\* The body of run() over the node list ns, from the state st.
RECURSIVE VisitAll(_, _, _)
VisitAll(method, st, ns) ==
    IF ns = <<>> THEN st
    ELSE VisitAll(method, VisitNode(method, st, Head(ns)), Tail(ns))

\* BarriersToDelaysPass(scheduling_method=method).run(dag)
BarriersToDelaysRun(method, dag) ==
    LET nodes == IF method = "alap" THEN Reverse(dag) ELSE dag
        st0 == [times |-> [q \in Qubits |-> 0], out |-> <<>>]
    IN  FinalFlush(method, VisitAll(method, st0, nodes)).out

\* ------------------------------------------------------------- MergeDelays

\* A slip: a delay is passed through instead of being registered.
MergeDelayPassThrough(st, node) ==
    [acc |-> st.acc, out |-> Append(st.out, node)]

\* node.name == "delay": register the duration on the node's qubits.
MergeDelayNode(st, node) ==
    [acc |-> [q \in Qubits |->
                IF q \in node.qargs
                THEN st.acc[q] + to_dt_float(node.duration, node.unit)
                ELSE st.acc[q]],
     out |-> st.out]

\* A slip: the test is `>= 0.0`, so a qubit that waited no time gets a delay.
WaitingDelaysNotNegative(acc, qs) ==
    LET waiting == SelectSeq(qs, LAMBDA q : acc[q] >= 0)
    IN  [i \in 1..Len(waiting) |-> Delay(waiting[i], IntOf(acc[waiting[i]]), "dt")]

\* The waiting delays of the qubits of qs (in order): one
\* Delay(int(delay_times_dt_float[q]), unit="dt") per qubit whose time is > 0.0.
WaitingDelays(acc, qs) ==
    LET waiting == SelectSeq(qs, LAMBDA q : acc[q] > 0)
    IN  [i \in 1..Len(waiting) |-> Delay(waiting[i], IntOf(acc[waiting[i]]), "dt")]

\* A slip: the waiting time of a qubit is not reset after its delay is added.
MergeOtherNodeNoReset(st, node) ==
    LET involved == SelectSeq(QubitSeq, LAMBDA q : q \in node.qargs)
    IN  [acc |-> st.acc,
         out |-> Append(st.out \o WaitingDelays(st.acc, involved), node)]

\* Any other node: add the waiting delays of its qubits, then the node.
MergeOtherNode(st, node) ==
    LET involved == SelectSeq(QubitSeq, LAMBDA q : q \in node.qargs)
    IN  [acc |-> [q \in Qubits |-> IF q \in node.qargs THEN 0 ELSE st.acc[q]],
         out |-> Append(st.out \o WaitingDelays(st.acc, involved), node)]

\* "Do not forget to add the potentially remaining delays."
MergeFlush(st) ==
    [acc |-> st.acc, out |-> st.out \o WaitingDelays(st.acc, QubitSeq)]

MergeNode(st, node) ==
    IF node.name = "delay" THEN MergeDelayNode(st, node) ELSE MergeOtherNode(st, node)

RECURSIVE MergeAll(_, _)
MergeAll(st, ns) ==
    IF ns = <<>> THEN st ELSE MergeAll(MergeNode(st, Head(ns)), Tail(ns))

\* MergeDelaysPass.run(dag)
MergeDelaysRun(dag) ==
    MergeFlush(MergeAll([acc |-> [q \in Qubits |-> 0], out |-> <<>>], dag)).out

\* ------------------------------------------------------------ components

\* Python's None: an optional value is a sequence of length 0 or 1.
None == <<>>
Some(x) == <<x>>

\* DynamicalDecouplingDelayComponent(pause_time): scalable, and its
\* durations_map is `lambda qargs: pause_time`.
DelayComponent(pause_time) ==
    [name |-> "delay", is_scalable |-> TRUE, durations |-> [q \in Qubits |-> pause_time]]

\* DynamicalDecouplingGateComponent: not scalable; durations[q] is
\* to_dt_rounded(get_circuit_duration(unrolled_circuit, properties, (q,))).
GateComponent(durations) ==
    [name |-> "gate", is_scalable |-> FALSE, durations |-> durations]

\* DynamicalDecouplingPulseComponent: not scalable; durations[q] is
\* schedules[(q,)].duration.
PulseComponent(durations) ==
    [name |-> "pulse", is_scalable |-> FALSE, durations |-> durations]

\* BaseDynamicalDecouplingComponent.duration(qargs), qargs = (q,)
Duration(component, q) == component.durations[q]

\* A slip: the component patches its own durations_map and returns itself
\* (no copy is made).
ScaleToInPlace(component, duration) ==
    IF component.name = "delay"
    THEN [self |-> DelayComponent(duration), raised |-> "",
          ret |-> Some(DelayComponent(duration))]
    ELSE [self |-> component, raised |-> "ComponentNotScalable", ret |-> None]

\* component.scale_to(duration): the component after the call, the exception
\* raised ("" when none) and the value returned.
ScaleTo(component, duration) ==
    IF component.name = "delay"
    THEN [self |-> component, raised |-> "",
          ret |-> Some(DelayComponent(duration))]
    ELSE [self |-> component, raised |-> "ComponentNotScalable", ret |-> None]

\* component.apply(circuit, (q,), [0]): the instruction appended to the
\* one-qubit circuit, with the duration it has on hardware qubit q.
Apply(component, q) == [name |-> component.name, duration |-> Duration(component, q)]

\* -------------------------------------------------------------- sequence

\* Python's round() of the fraction n / d, d > 0: to the nearest integer,
\* a tie to the even one.
PyRound(n, d) ==
    LET lo == n \div d
        r == n - lo * d
    IN  IF 2 * r < d THEN lo
        ELSE IF 2 * r > d THEN lo + 1
        ELSE IF lo % 2 = 0 THEN lo ELSE lo + 1

\* _add_component without the test on is_scalable: the supplied scale is stored
\* for every component.
AddComponentKeepScale(s, component, relative_scale) ==
    [sequence |-> Append(s.sequence, component),
     relative_scales |->
        Append(s.relative_scales,
               IF relative_scale = None THEN Some(1) ELSE relative_scale)]

\* BaseDynamicalDecouplingSequence._add_component
AddComponent(s, component, relative_scale) ==
    [sequence |-> Append(s.sequence, component),
     relative_scales |->
        Append(s.relative_scales,
               IF component.is_scalable
               THEN (IF relative_scale = None THEN Some(1) ELSE relative_scale)
               ELSE None)]

\* BaseDynamicalDecouplingSequence.__init__(sequence, relative_scales):
\* `zip(sequence, relative_scales or it.repeat(None))`; relative_scales is a
\* list of optional numbers, the empty list standing for None as well.
RECURSIVE AddZipped(_, _, _, _)
AddZipped(s, sequence, relative_scales, repeatNone) ==
    IF sequence = <<>> \/ (~repeatNone /\ relative_scales = <<>>) THEN s
    ELSE AddZipped(
            AddComponent(s, Head(sequence),
                         IF repeatNone THEN None ELSE Head(relative_scales)),
            Tail(sequence),
            IF repeatNone THEN <<>> ELSE Tail(relative_scales),
            repeatNone)

SequenceInit(sequence, relative_scales) ==
    AddZipped([sequence |-> <<>>, relative_scales |-> <<>>],
              sequence, relative_scales, relative_scales = <<>>)

\* sum(component.duration(qargs) for component in self._sequence
\*     if not component.is_scalable)
RECURSIVE FixedDuration(_, _)
FixedDuration(components, q) ==
    IF components = <<>> THEN 0
    ELSE (IF Head(components).is_scalable THEN 0 ELSE Duration(Head(components), q))
         + FixedDuration(Tail(components), q)

\* sum(sc for sc in self._relative_scales if sc is not None)
RECURSIVE TotalScale(_)
TotalScale(scales) ==
    IF scales = <<>> THEN 0
    ELSE (IF Head(scales) = None THEN 0 ELSE Head(scales)[1]) + TotalScale(Tail(scales))

\* A slip: `>=` for `>`.
CanBeUsedOnEqual(s, duration_dt, q) ==
    duration_dt >= FixedDuration(s.sequence, q)

\* BaseDynamicalDecouplingSequence.can_be_used_on_duration(duration_dt, (q,))
CanBeUsedOnDuration(s, duration_dt, q) ==
    duration_dt > FixedDuration(s.sequence, q)

\* A slip: the fixed duration is not subtracted from the total duration.
DurationToScaleTotal(s, total_duration_dt, q) == total_duration_dt

\* A slip: the subtraction is written the other way round.
DurationToScaleSwapped(s, total_duration_dt, q) ==
    FixedDuration(s.sequence, q) - total_duration_dt

\* duration_to_scale_dt of circuit()
DurationToScale(s, total_duration_dt, q) ==
    total_duration_dt - FixedDuration(s.sequence, q)

\* A slip: the scaled component is stored back in the sequence.
CircuitStepKeepScaled(acc, i, duration_to_scale_dt, total_scale, q) ==
    LET component == acc.self.sequence[i]
        relative_scale == acc.self.relative_scales[i]
    IN  IF component.is_scalable
        THEN LET component_duration_dt ==
                     PyRound(duration_to_scale_dt * relative_scale[1], total_scale)
                 r == ScaleTo(component, component_duration_dt)
             IN  [self |-> [acc.self EXCEPT !.sequence[i] = r.ret[1]],
                  ret |-> Append(acc.ret, Apply(r.ret[1], q))]
        ELSE [self |-> acc.self, ret |-> Append(acc.ret, Apply(component, q))]

\* One turn of the loop of circuit(), on the i-th pair: acc.self is the
\* sequence object (scale_to is called on its components), acc.ret the circuit
\* so far.
CircuitStep(acc, i, duration_to_scale_dt, total_scale, q) ==
    LET component == acc.self.sequence[i]
        relative_scale == acc.self.relative_scales[i]
    IN  IF component.is_scalable
        THEN LET component_duration_dt ==
                     PyRound(duration_to_scale_dt * relative_scale[1], total_scale)
                 r == ScaleTo(component, component_duration_dt)
             IN  [self |-> [acc.self EXCEPT !.sequence[i] = r.self],
                  ret |-> Append(acc.ret, Apply(r.ret[1], q))]
        ELSE [self |-> acc.self, ret |-> Append(acc.ret, Apply(component, q))]

\* A slip: a delay scaled to 0 dt is left out of the circuit.
RECURSIVE CircuitLoopSkipEmpty(_, _, _, _, _)
CircuitLoopSkipEmpty(acc, i, duration_to_scale_dt, total_scale, q) ==
    IF i > Len(acc.self.sequence) THEN acc
    ELSE LET component == acc.self.sequence[i]
             relative_scale == acc.self.relative_scales[i]
         IN  IF component.is_scalable
             THEN LET component_duration_dt ==
                          PyRound(duration_to_scale_dt * relative_scale[1], total_scale)
                      r == ScaleTo(component, component_duration_dt)
                  IN  CircuitLoopSkipEmpty(
                          [self |-> [acc.self EXCEPT !.sequence[i] = r.self],
                           ret |-> IF component_duration_dt = 0 THEN acc.ret
                                   ELSE Append(acc.ret, Apply(r.ret[1], q))],
                          i + 1, duration_to_scale_dt, total_scale, q)
             ELSE CircuitLoopSkipEmpty(
                          [self |-> acc.self, ret |-> Append(acc.ret, Apply(component, q))],
                          i + 1, duration_to_scale_dt, total_scale, q)

\* The loop of circuit() from its i-th pair on.
RECURSIVE CircuitLoop(_, _, _, _, _)
CircuitLoop(acc, i, duration_to_scale_dt, total_scale, q) ==
    IF i > Len(acc.self.sequence) THEN acc
    ELSE CircuitLoop(CircuitStep(acc, i, duration_to_scale_dt, total_scale, q),
                     i + 1, duration_to_scale_dt, total_scale, q)

\* BaseDynamicalDecouplingSequence.circuit(total_duration_dt, (q,)): the
\* sequence object after the call and the instructions of the circuit returned.
Circuit(s, total_duration_dt, q) ==
    CircuitLoop([self |-> s, ret |-> <<>>], 1,
                DurationToScale(s, total_duration_dt, q),
                TotalScale(s.relative_scales), q)

\* -------------------------------------------------------------------- state

VARIABLES
    scheduling_method,     \* BarriersToDelaysPass._scheduling_method
    pc,                    \* position of BarriersToDelaysPass.run: "idle", "loop", "done"
    visited,               \* the nodes the loop of that run has visited, in visit order
    times_dt,              \* times_dt of BarriersToDelaysPass.run
    output_dag_circuit,    \* output_dag_circuit of BarriersToDelaysPass.run
    merge_pc,              \* position of MergeDelaysPass.run: "idle", "loop", "done"
    merge_nodes,           \* the nodes the loop of that run has visited: its input graph
    delay_times_dt_float,  \* delay_times_dt_float of MergeDelaysPass.run
    merge_output,          \* output_dag_circuit of MergeDelaysPass.run
    dd_sequence,           \* a BaseDynamicalDecouplingSequence: _sequence, _relative_scales
    seq_call,              \* the last call made on dd_sequence or on one of its components
    flag_dag,              \* dag of FlagFundamentalStateOperations.run
    flag_pc,               \* the position of the loop of that run in flag_dag (0: not started)
    is_in_fundamental_state, \* its list of booleans, one per qubit
    property_set,          \* property_set["is_applied_on_fundamental_state"], by node position
    dd_pc,                 \* "idle", "loop" or "done": DelayToDynamicalDecouplingSequencePass.run
    dd_nodes,              \* the nodes its loop has visited
    dd_output,             \* its output_dag_circuit
    pm_index,              \* the position of the pass manager in its list of passes
    pm_ran,                \* the passes it has run, in order
    pm_dag,                \* the dag it hands from pass to pass
    pm_property_set,       \* its property set
    pm_input,              \* the dag its run was called with
    pm_error,              \* the exception its run has raised ("" for none)
    exact_call,            \* the last call of to_dt_assert_exact
    ctor_args,             \* the arguments of the last sequence constructor call
    build_calls,           \* the circuit() calls in progress on the shared dd_sequence
    twin_property_set,     \* the property set of a second run of the last pass
    twin_output            \* the output of that second run

b2dVars == <<scheduling_method, pc, visited, times_dt, output_dag_circuit>>
mergeVars == <<merge_pc, merge_nodes, delay_times_dt_float, merge_output>>
seqVars == <<dd_sequence, seq_call>>
flagVars == <<flag_dag, flag_pc, is_in_fundamental_state, property_set>>
ddVars == <<dd_pc, dd_nodes, dd_output>>
pmVars == <<pm_index, pm_ran, pm_dag, pm_property_set>>
extraVars == <<pm_input, pm_error, exact_call, ctor_args, build_calls,
               twin_property_set, twin_output>>
restVars == <<flagVars, ddVars, pmVars, extraVars>>
vars == <<b2dVars, mergeVars, seqVars, restVars>>

B2DIdle ==
    /\ scheduling_method = "alap"
    /\ pc = "idle"
    /\ visited = <<>>
    /\ times_dt = [q \in Qubits |-> 0]
    /\ output_dag_circuit = <<>>

MergeIdle ==
    /\ merge_pc = "idle"
    /\ merge_nodes = <<>>
    /\ delay_times_dt_float = [q \in Qubits |-> 0]
    /\ merge_output = <<>>

\* No call has been made yet.
NoCall ==
    [op |-> "", duration |-> 0, qarg |-> 0, index |-> 0,
     can |-> FALSE, circuit |-> <<>>, raised |-> "", scaled |-> None]

SeqIdle ==
    /\ dd_sequence = [sequence |-> <<>>, relative_scales |-> <<>>]
    /\ seq_call = NoCall

FlagIdle ==
    /\ flag_dag = <<>>
    /\ flag_pc = 0
    /\ is_in_fundamental_state = [q \in Qubits |-> TRUE]
    /\ property_set = <<>>

DDIdle ==
    /\ dd_pc = "idle"
    /\ dd_nodes = <<>>
    /\ dd_output = <<>>

PMIdle ==
    /\ pm_index = 0
    /\ pm_ran = <<>>
    /\ pm_dag = <<>>
    /\ pm_property_set = None

\* No call of to_dt_assert_exact has been made.
NoExactCall == [time |-> 0, raised |-> "", ret |-> None]

\* No constructor has been called.
NoCtor ==
    [class |-> "", sequence |-> <<>>, relative_scales |-> <<>>, repetition_number |-> 0,
     add_pre_post_rotations |-> FALSE]

ExtraIdle ==
    /\ pm_input = <<>>
    /\ pm_error = ""
    /\ exact_call = NoExactCall
    /\ ctor_args = NoCtor
    /\ build_calls = <<>>
    /\ twin_property_set = <<>>
    /\ twin_output = <<>>

RestIdle == FlagIdle /\ DDIdle /\ PMIdle /\ ExtraIdle

\* ----------------------------------------------- BarriersToDelaysPass.run

\* The input graph of the run so far: for "alap" the loop visits
\* reversed(nodes), so the input is the visit order reversed.
InputDag == IF scheduling_method = "alap" THEN Reverse(visited) ELSE visited

B2DState == [times |-> times_dt, out |-> output_dag_circuit]

\* run() has reached its loop: times_dt is all 0, the output is empty.
B2DInit ==
    /\ scheduling_method \in {"asap", "alap"}
    /\ pc = "loop"
    /\ visited = <<>>
    /\ times_dt = [q \in Qubits |-> 0]
    /\ output_dag_circuit = <<>>
    /\ MergeIdle
    /\ SeqIdle
    /\ RestIdle

\* The loop takes `node` and leaves the state st.
B2DTake(node, st) ==
    /\ visited' = Append(visited, node)
    /\ times_dt' = st.times
    /\ output_dag_circuit' = st.out
    /\ UNCHANGED <<scheduling_method, pc, mergeVars, seqVars, restVars>>

B2DBarrier ==
    /\ pc = "loop"
    /\ Len(visited) < MaxLen
    /\ \E Q \in QubitSets :
          B2DTake(BarrierNode(Q), VisitBarrier(scheduling_method, B2DState))

B2DMeasure ==
    /\ pc = "loop"
    /\ Len(visited) < MaxLen
    /\ \E q \in Qubits :
          B2DTake(MeasureNode(q),
                  VisitMeasure(scheduling_method, B2DState, MeasureNode(q)))

B2DGate ==
    /\ pc = "loop"
    /\ Len(visited) < MaxLen
    /\ \E Q \in QubitSets, d \in 1..MaxDur :
          B2DTake(GateNode(Q, d),
                  VisitGate(scheduling_method, B2DState, GateNode(Q, d)))

\* The node list is exhausted: the remaining delays, and return.
B2DFlush ==
    /\ pc = "loop"
    /\ pc' = "done"
    /\ output_dag_circuit' = FinalFlush(scheduling_method, B2DState).out
    /\ UNCHANGED <<scheduling_method, visited, times_dt, mergeVars, seqVars, restVars>>

B2DNext == B2DBarrier \/ B2DMeasure \/ B2DGate \/ B2DFlush

\* BarriersToDelaysPass.run on every graph of at most MaxLen nodes.
Spec == B2DInit /\ [][B2DNext]_vars

\* ---------------------------------------------------- MergeDelaysPass.run

MergeState == [acc |-> delay_times_dt_float, out |-> merge_output]

MergeInit ==
    /\ B2DIdle
    /\ SeqIdle
    /\ RestIdle
    /\ merge_pc = "loop"
    /\ merge_nodes = <<>>
    /\ delay_times_dt_float = [q \in Qubits |-> 0]
    /\ merge_output = <<>>

MergeTake(node, st) ==
    /\ merge_nodes' = Append(merge_nodes, node)
    /\ delay_times_dt_float' = st.acc
    /\ merge_output' = st.out
    /\ UNCHANGED <<merge_pc, b2dVars, seqVars, restVars>>

\* A Delay of a whole number of dt or of a number of nanoseconds.
MergeDelay ==
    /\ merge_pc = "loop"
    /\ Len(merge_nodes) < MaxLen
    /\ \E q \in Qubits, d \in 0..MaxDur, u \in {"dt", "ns"} :
          MergeTake(Delay(q, d, u), MergeDelayNode(MergeState, Delay(q, d, u)))

\* A node that is no delay: a gate or a barrier.
MergeOther ==
    /\ merge_pc = "loop"
    /\ Len(merge_nodes) < MaxLen
    /\ \E Q \in QubitSets :
          \E node \in {GateNode(Q, 1), BarrierNode(Q)} :
              MergeTake(node, MergeOtherNode(MergeState, node))

MergeFinish ==
    /\ merge_pc = "loop"
    /\ merge_pc' = "done"
    /\ merge_output' = MergeFlush(MergeState).out
    /\ UNCHANGED <<merge_nodes, delay_times_dt_float, b2dVars, seqVars, restVars>>

MergeNext == MergeDelay \/ MergeOther \/ MergeFinish

\* MergeDelaysPass.run on every graph of at most MaxLen nodes.
SpecMerge == MergeInit /\ [][MergeNext]_vars

\* ------------------------------------------------ measures of a graph

\* The duration of a node in the timeline, as a float (in 1/TickNs dt): a
\* delay lasts its duration, a gate its calibrated length, a measurement and
\* a barrier nothing.
NodeTime(n) ==
    IF IsDelay(n) THEN to_dt_float(n.duration, n.unit) ELSE n.length * TickNs

RECURSIVE TotalTime(_)
TotalTime(ns) == IF ns = <<>> THEN 0 ELSE NodeTime(Head(ns)) + TotalTime(Tail(ns))

\* Sum of the durations of the operations, and of the delays, on qubit q.
BusyTicks(g, q) == TotalTime(SelectSeq(OnQubit(g, q), LAMBDA n : ~IsDelay(n)))
IdleTicks(g, q) == TotalTime(SelectSeq(OnQubit(g, q), IsDelay))

\* The nodes of the wire of q that are no delay, and those that are no barrier.
NonDelays(g, q) == SelectSeq(OnQubit(g, q), LAMBDA n : ~IsDelay(n))
NonBarriers(g, q) == SelectSeq(OnQubit(g, q), LAMBDA n : n.name # "barrier")

\* The wires of a graph, qubit by qubit.
Wires(g) == [q \in Qubits |-> OnQubit(g, q)]

\* The nodes a step of BarriersToDelaysPass.run inserts: at the front of the
\* output for "alap", at its back otherwise.
Inserted ==
    LET k == Len(output_dag_circuit') - Len(output_dag_circuit)
    IN  IF scheduling_method = "alap"
        THEN SubSeq(output_dag_circuit', 1, k)
        ELSE SubSeq(output_dag_circuit', Len(output_dag_circuit) + 1,
                    Len(output_dag_circuit'))

\* The loop of BarriersToDelaysPass.run visits a node of the given name.
Visits(name) ==
    /\ pc = "loop"
    /\ Len(visited') = Len(visited) + 1
    /\ visited'[Len(visited')].name = name

\* ---------------------------------------------------------------- claims

\* C1: after BarriersToDelays completes, under both scheduling methods, the
\* durations of the delays and operations on each qubit sum to the global
\* maximum of the per-qubit current times at traversal end.
C1_EqualTotalTime ==
    pc = "done" =>
        \A q \in Qubits :
            TotalTime(OnQubit(output_dag_circuit, q))
                = MaxOver(Qubits, times_dt) * TickNs

\* C1 witness: a finished run with a barrier in the input whose qubits ended
\* at different current times.
C1_Witness ==
    /\ pc = "done"
    /\ \E i \in 1..Len(visited) : visited[i].name = "barrier"
    /\ \E q, r \in Qubits : times_dt[q] < times_dt[r]

\* C2 as stated: on every qubit, busy_ticks + idle_ticks before the pass
\* equals busy_ticks + idle_ticks after it.
C2_MassConservation ==
    pc = "done" =>
        \A q \in Qubits :
            BusyTicks(InputDag, q) + IdleTicks(InputDag, q)
                = BusyTicks(output_dag_circuit, q) + IdleTicks(output_dag_circuit, q)

\* C2 amended: on every qubit the busy ticks are the same before and after the
\* pass, and busy_ticks + idle_ticks after it is at least the sum before it:
\* padding only adds idle time.
C2_BusyKeptIdleAdded ==
    pc = "done" =>
        \A q \in Qubits :
            /\ BusyTicks(output_dag_circuit, q) = BusyTicks(InputDag, q)
            /\ BusyTicks(output_dag_circuit, q) + IdleTicks(output_dag_circuit, q)
                  >= BusyTicks(InputDag, q) + IdleTicks(InputDag, q)

\* C2 witness: a finished run that padded a busy qubit with idle time.
C2_Witness ==
    /\ pc = "done"
    /\ \E q \in Qubits :
          /\ BusyTicks(InputDag, q) > 0
          /\ IdleTicks(output_dag_circuit, q) > 0

\* C3: the output holds no barrier, and on each qubit the nodes of the output
\* that are no delay are the input's nodes that are no barrier, in the same
\* order (the nodes added are delays only), under both scheduling methods.
C3_NoBarrierOrderKept ==
    /\ \A i \in 1..Len(output_dag_circuit) : output_dag_circuit[i].name # "barrier"
    /\ \A q \in Qubits : NonDelays(output_dag_circuit, q) = NonBarriers(InputDag, q)

\* C3 witness: a finished "alap" run over a barrier, a measurement and a gate
\* that share a qubit.
C3_Witness ==
    /\ pc = "done"
    /\ scheduling_method = "alap"
    /\ \E q \in Qubits :
          /\ \E i \in 1..Len(visited) :
                visited[i].name = "barrier" /\ q \in visited[i].qargs
          /\ \E i, j \in 1..Len(NonBarriers(InputDag, q)) :
                /\ i < j
                /\ NonBarriers(InputDag, q)[i].name = "gate"
                /\ NonBarriers(InputDag, q)[j].name = "measure"

\* C4 as stated: at a barrier, with m the maximum of all current times, a
\* delay of m - t(q) is inserted on exactly the qubits q with t(q) < m, and
\* afterwards every qubit's current time is m.
C4_BarrierDelaysOnLateOnly ==
    [][Visits("barrier") =>
          LET m == MaxOver(Qubits, times_dt)
          IN  /\ \A q \in Qubits :
                    OnQubit(Inserted, q)
                        = IF times_dt[q] < m
                          THEN <<Delay(q, m - times_dt[q], "dt")>>
                          ELSE <<>>
              /\ times_dt' = [q \in Qubits |-> m]]_vars

\* C5: at an operation that is no barrier and no measurement, of duration d on
\* the qubits Q, with s the maximum current time over Q: a delay of s - t(q)
\* is inserted on exactly the q in Q with t(q) < s, the current time of every
\* q in Q becomes s + d, and that of every other qubit is unchanged.  A
\* measurement changes no current time.
C5_GateAndMeasureTiming ==
    [][/\ Visits("gate") =>
             LET node == visited'[Len(visited')]
                 s == MaxOver(node.qargs, times_dt)
             IN  /\ \A q \in Qubits :
                       SelectSeq(OnQubit(Inserted, q), IsDelay)
                           = IF q \in node.qargs /\ times_dt[q] < s
                             THEN <<Delay(q, s - times_dt[q], "dt")>>
                             ELSE <<>>
                 /\ \A q \in node.qargs : times_dt'[q] = s + node.length
                 /\ \A q \in Qubits \ node.qargs : times_dt'[q] = times_dt[q]
       /\ Visits("measure") => times_dt' = times_dt]_vars

\* C5 witness: the loop has just visited a two-qubit gate whose qubits were at
\* different current times, after a measurement.
C5_Witness ==
    /\ pc = "loop"
    /\ Len(visited) = 3
    /\ visited[1].name = "gate" /\ Cardinality(visited[1].qargs) = 1
    /\ visited[2].name = "measure"
    /\ visited[3].name = "gate" /\ visited[3].qargs = Qubits
    /\ \E i \in 1..Len(output_dag_circuit) :
          IsDelay(output_dag_circuit[i]) /\ output_dag_circuit[i].duration > 0

\* C6: the wires produced with "alap" are those obtained by reversing the
\* input, running the pass with "asap", and reversing the result.
C6_AlapAsapDuality ==
    (pc = "done" /\ scheduling_method = "alap") =>
        Wires(output_dag_circuit)
            = Wires(Reverse(BarriersToDelaysRun("asap", Reverse(InputDag))))

\* C6 witness: a finished "alap" run over a barrier between two gates of
\* different lengths, which is not its own reverse.
C6_Witness ==
    /\ pc = "done"
    /\ scheduling_method = "alap"
    /\ Len(visited) = 3
    /\ visited[1].name = "gate"
    /\ visited[2].name = "barrier"
    /\ visited[3].name = "gate"
    /\ visited[1].length # visited[3].length
    /\ Wires(output_dag_circuit) # Wires(Reverse(output_dag_circuit))

\* The scenario of C7: a 3-tick operation on qubit 0, a barrier over both
\* qubits, a 2-tick operation on qubit 0; nothing else on qubit 1.
Scenario == <<GateNode({0}, 3), BarrierNode({0, 1}), GateNode({0}, 2)>>

\* C7: on the scenario, "alap" scheduling gives qubit 1 a delay of exactly 3
\* ticks for the span before the barrier's synchronization point (followed by
\* the 2 ticks after it), and the delays on qubit 0 sum to 0 ticks.
C7_ScenarioAlap ==
    (pc = "done" /\ scheduling_method = "alap" /\ InputDag = Scenario) =>
        /\ OnQubit(output_dag_circuit, 1) = <<Delay(1, 3, "dt"), Delay(1, 2, "dt")>>
        /\ IdleTicks(output_dag_circuit, 0) = 0
        /\ NonDelays(output_dag_circuit, 0) = <<GateNode({0}, 3), GateNode({0}, 2)>>

\* C7 witness: the "alap" run on the scenario has finished.
C7_Witness ==
    pc = "done" /\ scheduling_method = "alap" /\ InputDag = Scenario

\* Two delays next to each other on the wire w.
AdjacentDelays(w) == \E i \in 1..(Len(w) - 1) : IsDelay(w[i]) /\ IsDelay(w[i + 1])

\* Every delay of the wire w lasts a whole number of dt.
WholeDelays(w) ==
    \A i \in 1..Len(w) :
        IsDelay(w[i]) => to_dt_float(w[i].duration, w[i].unit) % TickNs = 0

\* C8: in the output of MergeDelays no qubit has two adjacent delay nodes: at
\* most one delay lies between two consecutive nodes that are no delay, before
\* the first of them and after the last.
C8_NoAdjacentDelays ==
    \A q \in Qubits : ~AdjacentDelays(OnQubit(merge_output, q))

\* C8 witness: a finished run whose input had two adjacent delays on a qubit
\* and whose output has a delay on that qubit.
C8_Witness ==
    /\ merge_pc = "done"
    /\ \E q \in Qubits :
          /\ AdjacentDelays(OnQubit(merge_nodes, q))
          /\ \E i \in 1..Len(OnQubit(merge_output, q)) :
                IsDelay(OnQubit(merge_output, q)[i])
          /\ \E i \in 1..Len(OnQubit(merge_output, q)) :
                ~IsDelay(OnQubit(merge_output, q)[i])

\* C9 as stated: applying MergeDelays to the output of MergeDelays yields that
\* output again, wire by wire, whatever the durations of the input's delays.
C9_MergeIdempotent ==
    merge_pc = "done" => Wires(MergeDelaysRun(merge_output)) = Wires(merge_output)

\* C10: on every qubit the nodes that are no delay are emitted unchanged and
\* in order; the delays of the output sum to the sum of the input's when every
\* input delay on the qubit lasts a whole number of dt, and otherwise to that
\* sum less a loss of less than one dt per delay node emitted.
C10_IdleTimeKept ==
    merge_pc = "done" =>
        \A q \in Qubits :
            LET before == IdleTicks(merge_nodes, q)
                after == IdleTicks(merge_output, q)
                emitted == Len(SelectSeq(OnQubit(merge_output, q), IsDelay))
            IN  /\ NonDelays(merge_output, q) = NonDelays(merge_nodes, q)
                /\ WholeDelays(OnQubit(merge_nodes, q)) => after = before
                /\ after <= before
                /\ ~WholeDelays(OnQubit(merge_nodes, q))
                      => before - after < emitted * TickNs

\* C10 witness: a finished run that emitted two delays on a qubit and lost a
\* fraction of a dt at each.
C10_Witness ==
    /\ merge_pc = "done"
    /\ \E q \in Qubits :
          /\ Len(SelectSeq(OnQubit(merge_output, q), IsDelay)) = 2
          /\ IdleTicks(merge_nodes, q) - IdleTicks(merge_output, q) > TickNs \div 2
          /\ IdleTicks(merge_output, q) > 0

\* ------------------------------------- BaseDynamicalDecouplingSequence

\* The duration maps of the fixed components: the lengths of a gate grow with
\* the qubit index, the schedules of a pulse last the same on every qubit.
GateDurations == {[q \in Qubits |-> d + q] : d \in 1..MaxPulse}
PulseDurations == {[q \in Qubits |-> d] : d \in 1..MaxPulse}

\* The (component, relative scale) pairs a sequence is built from: None for a
\* component that is not scalable, None or a positive number for a delay.
Pairs ==
    {<<DelayComponent(1), sc>> : sc \in {None} \cup {Some(w) : w \in 1..MaxScale}}
        \cup {<<GateComponent(m), None>> : m \in GateDurations}
        \cup {<<PulseComponent(m), None>> : m \in PulseDurations}

\* The sequence object after __init__, for every list of at most MaxLen pairs.
SeqInit ==
    /\ B2DIdle
    /\ MergeIdle
    /\ RestIdle
    /\ \E n \in 0..MaxLen : \E ps \in [1..n -> Pairs] :
          dd_sequence = SequenceInit([i \in 1..n |-> ps[i][1]], [i \in 1..n |-> ps[i][2]])
    /\ seq_call = NoCall

\* can_be_used_on_duration(duration_dt, (q,))
SeqCanBeUsed ==
    /\ seq_call = NoCall
    /\ \E duration_dt \in 0..MaxTotal, q \in Qubits :
          seq_call' = [NoCall EXCEPT !.op = "can_be_used", !.duration = duration_dt,
                          !.qarg = q,
                          !.can = CanBeUsedOnDuration(dd_sequence, duration_dt, q)]
    /\ UNCHANGED <<dd_sequence, b2dVars, mergeVars, restVars>>

\* circuit(total_duration_dt, (q,)) on a duration the sequence can be used on,
\* as DelayToDynamicalDecouplingSequencePass.run calls it.
SeqCircuit ==
    /\ seq_call = NoCall
    /\ \E total_duration_dt \in 0..MaxTotal, q \in Qubits :
          /\ CanBeUsedOnDuration(dd_sequence, total_duration_dt, q)
          /\ LET r == Circuit(dd_sequence, total_duration_dt, q)
             IN  /\ dd_sequence' = r.self
                 /\ seq_call' = [NoCall EXCEPT !.op = "circuit",
                                    !.duration = total_duration_dt, !.qarg = q,
                                    !.circuit = r.ret]
    /\ UNCHANGED <<b2dVars, mergeVars, restVars>>

\* scale_to(duration) on the index-th component of the sequence.
SeqScaleTo ==
    /\ seq_call = NoCall
    /\ \E index \in 1..Len(dd_sequence.sequence), duration \in 0..MaxTotal :
          LET r == ScaleTo(dd_sequence.sequence[index], duration)
          IN  /\ dd_sequence' = [dd_sequence EXCEPT !.sequence[index] = r.self]
              /\ seq_call' = [NoCall EXCEPT !.op = "scale_to", !.duration = duration,
                                 !.index = index, !.raised = r.raised,
                                 !.scaled = r.ret]
    /\ UNCHANGED <<b2dVars, mergeVars, restVars>>

SeqNext == SeqCanBeUsed \/ SeqCircuit \/ SeqScaleTo

\* One call on every sequence of at most MaxLen components.
SpecSeq == SeqInit /\ [][SeqNext]_vars

\* ----------------------------------------------- measures of a sequence

RECURSIVE SumSeq(_)
SumSeq(xs) == IF xs = <<>> THEN 0 ELSE Head(xs) + SumSeq(Tail(xs))

\* The scalable and the fixed positions of the sequence object.
ScalableAt == {i \in DOMAIN dd_sequence.sequence : dd_sequence.sequence[i].is_scalable}
FixedAt == DOMAIN dd_sequence.sequence \ ScalableAt

\* F: the sum of the durations of the fixed components on qubit q.
FixedSum(q) ==
    SumSeq([i \in DOMAIN dd_sequence.sequence |->
              IF i \in FixedAt THEN dd_sequence.sequence[i].durations[q] ELSE 0])

\* The realized duration of the fragment the last call built.
FragmentDuration == SumSeq([i \in DOMAIN seq_call.circuit |-> seq_call.circuit[i].duration])

Abs(x) == IF x < 0 THEN -x ELSE x

\* ------------------------------------------------------------------- C11
\* C11: can_be_used_on_duration is strict at the boundary: with F the sum of
\* the durations of the fixed components on the qubit, the answer is false for
\* every duration t <= F and true for every t >= F + 1, also when F = 0.
C11_StrictBoundary ==
    seq_call.op = "can_be_used" =>
        /\ seq_call.duration <= FixedSum(seq_call.qarg) => ~seq_call.can
        /\ seq_call.duration >= FixedSum(seq_call.qarg) + 1 => seq_call.can

\* The boundary itself: a sequence with fixed components asked about t = F.
C11_Witness ==
    /\ seq_call.op = "can_be_used"
    /\ FixedAt /= {}
    /\ seq_call.duration = FixedSum(seq_call.qarg)
    /\ ~seq_call.can

\* ------------------------------------------------------------------- C12
\* C12: circuit returns a fragment of the specified duration: the durations
\* of the fixed components and of the scaled delays of the fragment sum to
\* total_duration_dt exactly, for every duration the sequence can be used on.
C12_ExactDuration ==
    seq_call.op = "circuit" => FragmentDuration = seq_call.duration

\* ------------------------------------------------------------------- C13
\* C13: the realized duration of the fragment differs from the target by at
\* most k ticks, k the number of scalable components of the sequence, for
\* every sequence and every duration the sequence can be used on.
C13_BoundedDrift ==
    seq_call.op = "circuit" =>
        Abs(FragmentDuration - seq_call.duration) <= Cardinality(ScalableAt)

\* ------------------------------------------------------------------- C14
\* C14: a sequence with exactly one scalable component, of weight 1, and fixed
\* sum F, built with target F + k, yields that component at duration exactly
\* k, for every k >= 1, and every fixed component at its own duration.
C14_SingleSlotFit ==
    (/\ seq_call.op = "circuit"
     /\ Cardinality(ScalableAt) = 1
     /\ \A i \in ScalableAt : dd_sequence.relative_scales[i] = Some(1))
    => /\ \A i \in ScalableAt :
             seq_call.circuit[i].duration = seq_call.duration - FixedSum(seq_call.qarg)
       /\ \A i \in FixedAt :
             seq_call.circuit[i].duration = dd_sequence.sequence[i].durations[seq_call.qarg]

\* The case k = 5, over fixed components.
C14_Witness ==
    /\ seq_call.op = "circuit"
    /\ Cardinality(ScalableAt) = 1
    /\ \A i \in ScalableAt : dd_sequence.relative_scales[i] = Some(1)
    /\ FixedAt /= {}
    /\ seq_call.duration = FixedSum(seq_call.qarg) + 5

\* ------------------------------------------------------------------- C15
\* C15: the instructions of the fragment follow the order of the sequence,
\* one per entry: a delay for a scalable entry, the component itself for a
\* fixed entry; no entry is skipped or reordered.
C15_OrderKept ==
    seq_call.op = "circuit" =>
        /\ Len(seq_call.circuit) = Len(dd_sequence.sequence)
        /\ \A i \in ScalableAt : seq_call.circuit[i].name = "delay"
        /\ \A i \in FixedAt :
              seq_call.circuit[i] =
                  [name |-> dd_sequence.sequence[i].name,
                   duration |-> dd_sequence.sequence[i].durations[seq_call.qarg]]

\* A fragment of a fixed component between a delay that was scaled to 0 dt
\* and a delay that was not.
C15_Witness ==
    /\ seq_call.op = "circuit"
    /\ \E i, j \in ScalableAt, f \in FixedAt :
          /\ i < f /\ f < j
          /\ seq_call.circuit[i].duration = 0
          /\ seq_call.circuit[j].duration > 0

\* ------------------------------------------------------------------- C20
\* C20: scale_to(duration) on a delay component returns a new scalable
\* component that lasts exactly `duration` on every qubit and leaves the
\* original component as it was; on a gate or a pulse component it raises
\* ComponentNotScalable and leaves the component as it was.
C20_ScaleToContract ==
    [][seq_call'.op = "scale_to" =>
          LET component == dd_sequence.sequence[seq_call'.index]
          IN  /\ dd_sequence' = dd_sequence
              /\ component.name = "delay" =>
                    /\ seq_call'.raised = ""
                    /\ seq_call'.scaled /= None
                    /\ seq_call'.scaled[1].is_scalable
                    /\ \A q \in Qubits :
                          seq_call'.scaled[1].durations[q] = seq_call'.duration
              /\ component.name \in {"gate", "pulse"} =>
                    /\ seq_call'.raised = "ComponentNotScalable"
                    /\ seq_call'.scaled = None]_vars

\* A delay component of 1 dt scaled to another duration, in a sequence that
\* also holds a fixed component.
C20_Witness ==
    /\ seq_call.op = "scale_to"
    /\ dd_sequence.sequence[seq_call.index].name = "delay"
    /\ seq_call.duration > 1
    /\ seq_call.scaled /= None
    /\ FixedAt /= {}

\* --------------------------------------- FlagFundamentalStateOperations

IdNode(q) ==
    [name |-> "id", qargs |-> {q}, duration |-> 0, unit |-> "dt", length |-> 0]

ResetNode(q) ==
    [name |-> "reset", qargs |-> {q}, duration |-> 0, unit |-> "dt", length |-> 0]

\* A slip: a measurement counted among the operations that leave |0> alone.
IdentityOperationsWithMeasure == {"id", "delay", "barrier", "measure"}

IDENTITY_OPERATIONS == {"id", "delay", "barrier"}

\* A slip: a reset puts its qubits back to |0> before its own entry is recorded.
FlagNodeResetFirst(st, node) ==
    LET ground == IF node.name = "reset"
                  THEN [q \in Qubits |-> IF q \in node.qargs THEN TRUE ELSE st.ground[q]]
                  ELSE st.ground
    IN  IF node.name \in IDENTITY_OPERATIONS \/ node.name = "reset"
        THEN [ground |-> ground,
              ps |-> Append(st.ps, \A q \in node.qargs : ground[q])]
        ELSE [ground |-> [q \in Qubits |-> IF q \in node.qargs THEN FALSE ELSE ground[q]],
              ps |-> Append(st.ps, FALSE)]

\* One turn of the loop of run: st.ground is is_in_fundamental_state, st.ps the
\* entries of the property set, one per visited node.
FlagNode(st, node) ==
    LET recorded ==
            IF node.name \in IDENTITY_OPERATIONS \/ node.name = "reset"
            THEN [ground |-> st.ground,
                  ps |-> Append(st.ps, \A q \in node.qargs : st.ground[q])]
            ELSE [ground |-> [q \in Qubits |-> IF q \in node.qargs THEN FALSE ELSE st.ground[q]],
                  ps |-> Append(st.ps, FALSE)]
    IN  IF node.name = "reset"
        THEN [recorded EXCEPT !.ground =
                 [q \in Qubits |-> IF q \in node.qargs THEN TRUE ELSE recorded.ground[q]]]
        ELSE recorded

RECURSIVE FlagAll(_, _)
FlagAll(st, nodes) ==
    IF nodes = <<>> THEN st ELSE FlagAll(FlagNode(st, Head(nodes)), Tail(nodes))

\* run(dag): the property set it leaves.
FlagRun(dag) == FlagAll([ground |-> [q \in Qubits |-> TRUE], ps |-> <<>>], dag).ps

\* The operation nodes a flagged graph is made of.
FlagNodes ==
    {IdNode(q) : q \in Qubits} \cup {Delay(q, 1, "dt") : q \in Qubits}
        \cup {ResetNode(q) : q \in Qubits} \cup {MeasureNode(q) : q \in Qubits}
        \cup {GateNode(Q, 1) : Q \in QubitSets} \cup {BarrierNode(Q) : Q \in QubitSets}

FlagState == [ground |-> is_in_fundamental_state, ps |-> property_set]

\* run() has reached its loop, on every graph of at most MaxLen nodes.
FlagInit ==
    /\ B2DIdle
    /\ MergeIdle
    /\ SeqIdle
    /\ DDIdle
    /\ PMIdle
    /\ ExtraIdle
    /\ \E n \in 0..MaxLen : flag_dag \in [1..n -> FlagNodes]
    /\ flag_pc = 1
    /\ is_in_fundamental_state = [q \in Qubits |-> TRUE]
    /\ property_set = <<>>

FlagTake(node) ==
    /\ is_in_fundamental_state' = FlagNode(FlagState, node).ground
    /\ property_set' = FlagNode(FlagState, node).ps
    /\ flag_pc' = flag_pc + 1
    /\ UNCHANGED <<flag_dag, b2dVars, mergeVars, seqVars, ddVars, pmVars, extraVars>>

FlagIdentity ==
    /\ flag_pc \in DOMAIN flag_dag
    /\ flag_dag[flag_pc].name \in IDENTITY_OPERATIONS
    /\ FlagTake(flag_dag[flag_pc])

FlagReset ==
    /\ flag_pc \in DOMAIN flag_dag
    /\ flag_dag[flag_pc].name = "reset"
    /\ FlagTake(flag_dag[flag_pc])

FlagOther ==
    /\ flag_pc \in DOMAIN flag_dag
    /\ flag_dag[flag_pc].name \notin IDENTITY_OPERATIONS \cup {"reset"}
    /\ FlagTake(flag_dag[flag_pc])

FlagNext == FlagIdentity \/ FlagReset \/ FlagOther

SpecFlag == FlagInit /\ [][FlagNext]_vars

\* The nodes before position j on qubit q's wire.
Before(j, q) == {i \in 1..(j - 1) : q \in flag_dag[i].qargs}

\* The operations that take a qubit out of |0>: all but these four.
LeavesGround(n) == n.name \notin {"id", "delay", "barrier", "reset"}

\* ------------------------------------------------------------------- C17
\* C17: on any qubit, a delay with no operation other than identity, delay,
\* barrier or reset before it is flagged true; after any other operation
\* (a measurement included) every later delay on the qubit is flagged false
\* until a reset on it; a delay after that reset, with no such operation in
\* between, is flagged true again.
C17_FlagTransitions ==
    \A j \in DOMAIN property_set : \A q \in Qubits :
        flag_dag[j] = Delay(q, 1, "dt") =>
            LET dirty == {i \in Before(j, q) : LeavesGround(flag_dag[i])}
                resets == {i \in Before(j, q) : flag_dag[i].name = "reset"}
            IN  /\ dirty = {} => property_set[j]
                /\ (\E i \in dirty : \A r \in resets : r < i) => ~property_set[j]
                /\ (\E r \in resets : dirty /= {} /\ \A i \in dirty : i < r)
                      => property_set[j]

\* A gate, then a reset, then a delay flagged true, all on one qubit.
C17_Witness ==
    \E q \in Qubits : \E i, r, j \in DOMAIN property_set :
        /\ i < r /\ r < j
        /\ flag_dag[i] = GateNode({q}, 1)
        /\ flag_dag[r] = ResetNode(q)
        /\ flag_dag[j] = Delay(q, 1, "dt")
        /\ property_set[j]

\* ------------------------------------------------------------------- C18
\* C18: every node gets an entry. For an identity, delay, barrier or reset
\* node it is the AND of the ground flags of the node's qubits before the
\* node (a reset sets them true only after its entry is recorded); for any
\* other node it is false and the ground flags of its qubits become false.
\* The graph is left as it was.
C18_EntryPerNode ==
    [][flag_pc' /= flag_pc =>
          LET node == flag_dag[flag_pc]
              ground == is_in_fundamental_state
          IN  /\ flag_dag' = flag_dag
              /\ Len(property_set') = flag_pc
              /\ \A i \in DOMAIN property_set : property_set'[i] = property_set[i]
              /\ node.name \in {"id", "delay", "barrier", "reset"} =>
                    property_set'[flag_pc] = (\A q \in node.qargs : ground[q])
              /\ node.name \in {"id", "delay", "barrier"} =>
                    is_in_fundamental_state' = ground
              /\ node.name = "reset" =>
                    is_in_fundamental_state' =
                        [q \in Qubits |-> IF q \in node.qargs THEN TRUE ELSE ground[q]]
              /\ node.name \notin {"id", "delay", "barrier", "reset"} =>
                    /\ property_set'[flag_pc] = FALSE
                    /\ is_in_fundamental_state' =
                          [q \in Qubits |-> IF q \in node.qargs THEN FALSE ELSE ground[q]]
              /\ flag_pc' = Len(flag_dag) + 1 => Len(property_set') = Len(flag_dag)]_vars

\* A reset on a qubit that had left |0>: flagged false, the qubit back in |0>.
C18_Witness ==
    /\ flag_pc > 1
    /\ flag_pc - 1 \in DOMAIN flag_dag
    /\ flag_dag[flag_pc - 1].name = "reset"
    /\ property_set[flag_pc - 1] = FALSE
    /\ \A q \in flag_dag[flag_pc - 1].qargs : is_in_fundamental_state[q]

\* ------------------------------- DelayToDynamicalDecouplingSequencePass

\* _utils.to_dt_rounded: int() of to_dt_float.
to_dt_rounded(time, unit) == IntOf(to_dt_float(time, unit))

\* BaseHahnSpinEchoDynamicalDecouplingSequence(component, pre_rotation, post_rotation)
BaseHahnSpinEcho(component, pre_rotation, post_rotation) ==
    LET sequence0 == <<DelayComponent(1), component, DelayComponent(1)>>
        relative_scales0 == <<Some(1), None, Some(1)>>
        sequence1 == IF pre_rotation /= None
                     THEN <<pre_rotation[1]>> \o sequence0 ELSE sequence0
        relative_scales1 == IF pre_rotation /= None
                            THEN <<None>> \o relative_scales0 ELSE relative_scales0
        sequence2 == IF post_rotation /= None
                     THEN Append(sequence1, post_rotation[1]) ELSE sequence1
        relative_scales2 == IF post_rotation /= None
                            THEN Append(relative_scales1, None) ELSE relative_scales1
    IN  SequenceInit(sequence2, relative_scales2)

\* The node an instruction of a fragment becomes once composed on qubit q.
ComposedNode(instruction, q) ==
    IF instruction.name = "delay"
    THEN Delay(q, instruction.duration, "dt")
    ELSE [name |-> instruction.name, qargs |-> {q}, duration |-> 0, unit |-> "dt",
          length |-> instruction.duration]

\* output_dag_circuit.compose(dd_dag, qubits=node.qargs)
Compose(dag, circuit, q) == dag \o [i \in DOMAIN circuit |-> ComposedNode(circuit[i], q)]

\* A slip: the duration of the delay is taken as a number of dt whatever its unit.
DDNodeRawDuration(st, node) ==
    IF node.name = "delay"
    THEN LET duration_dt == node.duration
             q == CHOOSE x \in node.qargs : TRUE
         IN  IF CanBeUsedOnDuration(st.seq, duration_dt, q)
             THEN LET r == Circuit(st.seq, duration_dt, q)
                  IN  [seq |-> r.self, out |-> Compose(st.out, r.ret, q)]
             ELSE [seq |-> st.seq, out |-> Append(st.out, node)]
    ELSE [seq |-> st.seq, out |-> Append(st.out, node)]

\* One turn of the loop of run: st.seq is self._sequence, st.out the output.
DDNode(st, node) ==
    IF node.name = "delay"
    THEN LET duration_dt == to_dt_rounded(node.duration, node.unit)
             q == CHOOSE x \in node.qargs : TRUE
         IN  IF CanBeUsedOnDuration(st.seq, duration_dt, q)
             THEN LET r == Circuit(st.seq, duration_dt, q)
                  IN  [seq |-> r.self, out |-> Compose(st.out, r.ret, q)]
             ELSE [seq |-> st.seq, out |-> Append(st.out, node)]
    ELSE [seq |-> st.seq, out |-> Append(st.out, node)]

RECURSIVE DDAll(_, _)
DDAll(st, nodes) ==
    IF nodes = <<>> THEN st ELSE DDAll(DDNode(st, Head(nodes)), Tail(nodes))

\* run(dag) with self._sequence = seq.
DelaysToDDRun(seq, dag) == DDAll([seq |-> seq, out |-> <<>>], dag)

DDState == [seq |-> dd_sequence, out |-> dd_output]

\* The delays of a graph: a whole number of dt, or a number of ns.
DDDelays ==
    {Delay(q, k, "dt") : q \in Qubits, k \in 0..MaxDur}
        \cup {Delay(q, k, "ns") : q \in Qubits, k \in 0..MaxTotal}

\* run() has reached its loop; the pass holds a spin echo sequence.
DDInit ==
    /\ B2DIdle
    /\ MergeIdle
    /\ FlagIdle
    /\ PMIdle
    /\ ExtraIdle
    /\ seq_call = NoCall
    /\ \E m \in GateDurations \cup PulseDurations :
          \E component \in {GateComponent(m), PulseComponent(m)} :
             dd_sequence = BaseHahnSpinEcho(component, None, None)
    /\ dd_pc = "loop"
    /\ dd_nodes = <<>>
    /\ dd_output = <<>>

DDTake(node) ==
    /\ dd_nodes' = Append(dd_nodes, node)
    /\ dd_sequence' = DDNode(DDState, node).seq
    /\ dd_output' = DDNode(DDState, node).out
    /\ UNCHANGED <<dd_pc, seq_call, b2dVars, mergeVars, flagVars, pmVars, extraVars>>

\* A delay the sequence can be used on.
DDDelayReplaced ==
    /\ dd_pc = "loop"
    /\ Len(dd_nodes) < MaxNodes
    /\ \E node \in DDDelays :
          /\ \A q \in node.qargs :
                CanBeUsedOnDuration(dd_sequence, to_dt_rounded(node.duration, node.unit), q)
          /\ DDTake(node)

\* A delay too short for the sequence.
DDDelayKept ==
    /\ dd_pc = "loop"
    /\ Len(dd_nodes) < MaxNodes
    /\ \E node \in DDDelays :
          /\ \A q \in node.qargs :
                ~CanBeUsedOnDuration(dd_sequence, to_dt_rounded(node.duration, node.unit), q)
          /\ DDTake(node)

DDOther ==
    /\ dd_pc = "loop"
    /\ Len(dd_nodes) < MaxNodes
    /\ \E node \in {GateNode(Q, 1) : Q \in QubitSets} \cup {MeasureNode(q) : q \in Qubits} :
          DDTake(node)

DDReturn ==
    /\ dd_pc = "loop"
    /\ dd_pc' = "done"
    /\ UNCHANGED <<dd_nodes, dd_output, seqVars, b2dVars, mergeVars, flagVars, pmVars, extraVars>>

DDNext == DDDelayReplaced \/ DDDelayKept \/ DDOther \/ DDReturn

SpecDD == DDInit /\ [][DDNext]_vars

\* d: the duration of a delay node in whole ticks.
Ticks(node) == IF node.unit = "dt" THEN node.duration ELSE node.duration \div TickNs

\* What the rewrite rule emits for one node on its qubit.
Rewritten(node) ==
    LET q == CHOOSE x \in node.qargs : TRUE
    IN  IF IsDelay(node) /\ CanBeUsedOnDuration(dd_sequence, Ticks(node), q)
        THEN Compose(<<>>, Circuit(dd_sequence, Ticks(node), q).ret, q)
        ELSE <<node>>

RECURSIVE RewrittenAll(_)
RewrittenAll(nodes) ==
    IF nodes = <<>> THEN <<>> ELSE Rewritten(Head(nodes)) \o RewrittenAll(Tail(nodes))

\* ------------------------------------------------------------------- C16
\* C16: a delay node of d ticks on qubit q is replaced by the fragment
\* circuit(d, q) exactly when can_be_used_on_duration(d, q) holds and is emitted
\* unchanged otherwise; every other node is emitted unchanged; on every qubit
\* the emitted nodes and fragments follow the order of the input.
C16_RewriteRule ==
    Wires(dd_output) = Wires(RewrittenAll(dd_nodes))

\* A delay of 2.5 dt given in ns that was replaced by a fragment of 2 dt,
\* and a delay that was too short and kept.
C16_Witness ==
    /\ dd_pc = "done"
    /\ \E i, j \in DOMAIN dd_nodes :
          /\ dd_nodes[i] = Delay(0, 2 * TickNs + 1, "ns")
          /\ Rewritten(dd_nodes[i]) /= <<dd_nodes[i]>>
          /\ IsDelay(dd_nodes[j])
          /\ Rewritten(dd_nodes[j]) = <<dd_nodes[j]>>
    /\ Len(dd_output) > Len(dd_nodes)

\* ---------------------------------------------------- get_dd_pass_manager

\* A slip: the dynamical decoupling pass listed before the flagging pass.
PassesFlagLast ==
    <<"BarriersToDelaysPass", "MergeDelaysPass",
      "DelayToDynamicalDecouplingSequencePass", "FlagFundamentalStateOperations">>

\* The list handed to PassManager(passes=[...]).
Passes ==
    <<"BarriersToDelaysPass", "MergeDelaysPass",
      "FlagFundamentalStateOperations", "DelayToDynamicalDecouplingSequencePass">>

\* The nodes of a circuit given to the pass manager.
PMNodes ==
    {BarrierNode(Q) : Q \in QubitSets} \cup {MeasureNode(q) : q \in Qubits}
        \cup {GateNode(Q, d) : Q \in QubitSets, d \in 1..MaxDur}

\* get_dd_pass_manager(backend, dd_sequence, scheduling) has returned and the
\* pass manager is run on a circuit of at most MaxNodes nodes.
PMInit ==
    /\ scheduling_method \in {"asap", "alap"}
    /\ pc = "idle"
    /\ visited = <<>>
    /\ times_dt = [q \in Qubits |-> 0]
    /\ output_dag_circuit = <<>>
    /\ MergeIdle
    /\ FlagIdle
    /\ DDIdle
    /\ seq_call = NoCall
    /\ \E m \in GateDurations \cup PulseDurations :
          \E component \in {GateComponent(m), PulseComponent(m)} :
             dd_sequence = BaseHahnSpinEcho(component, None, None)
    /\ pm_index = 1
    /\ pm_ran = <<>>
    /\ \E n \in 0..MaxNodes : pm_dag \in [1..n -> PMNodes]
    /\ pm_property_set = None
    /\ pm_input = pm_dag
    /\ pm_error = ""
    /\ exact_call = NoExactCall
    /\ ctor_args = NoCtor
    /\ build_calls = <<>>
    /\ twin_property_set = <<>>
    /\ twin_output = <<>>

\* The pass manager runs the pass at pm_index and moves on.
PMRan(name) ==
    /\ pm_index \in DOMAIN Passes
    /\ Passes[pm_index] = name
    /\ pm_ran' = Append(pm_ran, name)
    /\ pm_index' = pm_index + 1
    /\ UNCHANGED <<b2dVars, mergeVars, seq_call, flagVars, ddVars, extraVars>>

PMBarriersToDelays ==
    /\ PMRan("BarriersToDelaysPass")
    /\ pm_dag' = BarriersToDelaysRun(scheduling_method, pm_dag)
    /\ UNCHANGED <<pm_property_set, dd_sequence>>

PMMergeDelays ==
    /\ PMRan("MergeDelaysPass")
    /\ pm_dag' = MergeDelaysRun(pm_dag)
    /\ UNCHANGED <<pm_property_set, dd_sequence>>

PMFlag ==
    /\ PMRan("FlagFundamentalStateOperations")
    /\ pm_property_set' = Some(FlagRun(pm_dag))
    /\ UNCHANGED <<pm_dag, dd_sequence>>

PMDelayToDD ==
    /\ PMRan("DelayToDynamicalDecouplingSequencePass")
    /\ pm_dag' = DelaysToDDRun(dd_sequence, pm_dag).out
    /\ dd_sequence' = DelaysToDDRun(dd_sequence, pm_dag).seq
    /\ UNCHANGED pm_property_set

PMNext == PMBarriersToDelays \/ PMMergeDelays \/ PMFlag \/ PMDelayToDD

SpecPM == PMInit /\ [][PMNext]_vars

\* ------------------------------------------------------------------- C19
\* C19: the pass manager runs exactly four passes, in the order
\* BarriersToDelays, MergeDelays, FlagFundamentalStateOperations, DelayToDD,
\* for "asap" and for "alap": at any time the passes run so far are a prefix
\* of that order (so DelayToDD starts only after MergeDelays and the flagging
\* pass are over, and no pass runs twice), and at the end all four have run.
C19_FixedOrder ==
    LET order == <<"BarriersToDelaysPass", "MergeDelaysPass",
                   "FlagFundamentalStateOperations",
                   "DelayToDynamicalDecouplingSequencePass">>
    IN  /\ Len(pm_ran) <= 4
        /\ pm_ran = SubSeq(order, 1, Len(pm_ran))
        /\ (pm_index > Len(Passes)) => pm_ran = order

\* The end of an "asap" run in which the last pass replaced a delay by a
\* fragment around a pulse, on a flagged graph.
C19_Witness ==
    /\ scheduling_method = "asap"
    /\ pm_index > Len(Passes)
    /\ Len(pm_ran) = 4
    /\ pm_property_set /= None
    /\ \E i \in DOMAIN pm_dag : pm_dag[i].name = "pulse"

\* ------------------------------------------------------ to_dt_assert_exact

\* A calibrated length in seconds is a whole number of grains and dt lasts
\* Grain grains: the float dt_float = time / dt is kept as the number of grains,
\* and absolute_error is AbsoluteError / Grain.

\* A slip: the time is converted without the assertion.
ToDtNeverRaises(time) == [raised |-> "", ret |-> Some(time \div Grain)]

\* to_dt_assert_exact(time, unit="s", dt): int() truncates.
to_dt_assert_exact(time) ==
    LET dt_float == time
        int_dt_float == dt_float \div Grain
    IN  IF Abs(dt_float - int_dt_float * Grain) > AbsoluteError
        THEN [raised |-> "RuntimeError", ret |-> None]
        ELSE [raised |-> "", ret |-> Some(int_dt_float)]

\* How far properties.gate_length is from a whole number of dt, in grains: on
\* it, within the tolerance above or below it, and beyond the tolerance.
CalibrationErrors == {0, AbsoluteError, 0 - AbsoluteError, AbsoluteError + 1}

\* ------------------------------- the pass manager over calibrated lengths

\* The pass manager has called BarriersToDelaysPass.run, its first pass, on a
\* circuit of at most MaxNodes nodes; run has reached its loop.
AbInit ==
    /\ scheduling_method \in {"asap", "alap"}
    /\ pc = "loop"
    /\ visited = <<>>
    /\ times_dt = [q \in Qubits |-> 0]
    /\ output_dag_circuit = <<>>
    /\ MergeIdle
    /\ FlagIdle
    /\ DDIdle
    /\ seq_call = NoCall
    /\ \E m \in PulseDurations : dd_sequence = BaseHahnSpinEcho(PulseComponent(m), None, None)
    /\ pm_index = 1
    /\ pm_ran = <<>>
    /\ \E n \in 0..MaxNodes : pm_dag \in [1..n -> PMNodes]
    /\ pm_property_set = None
    /\ pm_input = pm_dag
    /\ pm_error = ""
    /\ exact_call = NoExactCall
    /\ ctor_args = NoCtor
    /\ build_calls = <<>>
    /\ twin_property_set = <<>>
    /\ twin_output = <<>>

\* nodes: the op nodes of the dag, reversed for "alap".
AbNodes == IF scheduling_method = "alap" THEN Reverse(pm_dag) ELSE pm_dag

\* The loop of run is on a node of that name.
AbAt(names) ==
    /\ pm_error = ""
    /\ pm_index = 1
    /\ pc = "loop"
    /\ Len(visited) < Len(AbNodes)
    /\ AbNodes[Len(visited) + 1].name \in names

AbTake(st) ==
    /\ visited' = Append(visited, AbNodes[Len(visited) + 1])
    /\ times_dt' = st.times
    /\ output_dag_circuit' = st.out
    /\ UNCHANGED <<scheduling_method, pc, mergeVars, seqVars, flagVars, ddVars, pmVars,
                   pm_input, pm_error, ctor_args, build_calls, twin_property_set,
                   twin_output>>

AbBarrier ==
    /\ AbAt({"barrier"})
    /\ AbTake(VisitBarrier(scheduling_method, B2DState))
    /\ UNCHANGED exact_call

AbMeasure ==
    /\ AbAt({"measure"})
    /\ AbTake(VisitMeasure(scheduling_method, B2DState, AbNodes[Len(visited) + 1]))
    /\ UNCHANGED exact_call

\* Any other node whose calibrated length passes to_dt_assert_exact.
AbGate ==
    /\ AbAt({"gate"})
    /\ \E e \in CalibrationErrors :
          LET node == AbNodes[Len(visited) + 1]
              time == node.length * Grain + e
              r == to_dt_assert_exact(time)
          IN  /\ r.raised = ""
              /\ exact_call' = [time |-> time, raised |-> r.raised, ret |-> r.ret]
              /\ AbTake(VisitGate(scheduling_method, B2DState,
                                  GateNode(node.qargs, r.ret[1])))

\* Any other node whose calibrated length does not: the RuntimeError leaves
\* run and the pass manager.
AbGateRaises ==
    /\ AbAt({"gate"})
    /\ \E e \in CalibrationErrors :
          LET node == AbNodes[Len(visited) + 1]
              time == node.length * Grain + e
              r == to_dt_assert_exact(time)
          IN  /\ r.raised /= ""
              /\ exact_call' = [time |-> time, raised |-> r.raised, ret |-> r.ret]
              /\ pc' = "raised"
              /\ pm_error' = r.raised
    /\ UNCHANGED <<scheduling_method, visited, times_dt, output_dag_circuit, mergeVars,
                   seqVars, flagVars, ddVars, pmVars, pm_input, ctor_args, build_calls,
                   twin_property_set, twin_output>>

\* The node list is exhausted: the remaining delays, return, and the pass
\* manager moves to its next pass with the returned dag.
AbReturn ==
    /\ pm_error = ""
    /\ pm_index = 1
    /\ pc = "loop"
    /\ Len(visited) = Len(AbNodes)
    /\ Passes[pm_index] = "BarriersToDelaysPass"
    /\ pc' = "done"
    /\ output_dag_circuit' = FinalFlush(scheduling_method, B2DState).out
    /\ pm_dag' = output_dag_circuit'
    /\ pm_ran' = Append(pm_ran, "BarriersToDelaysPass")
    /\ pm_index' = 2
    /\ UNCHANGED <<scheduling_method, visited, times_dt, mergeVars, seqVars, flagVars,
                   ddVars, pm_property_set, extraVars>>

AbNext ==
    \/ AbBarrier \/ AbMeasure \/ AbGate \/ AbGateRaises \/ AbReturn
    \/ PMMergeDelays \/ PMFlag \/ PMDelayToDD

SpecAbort == AbInit /\ [][AbNext]_vars

\* ------------------------------------------------------------------- C21
\* C21: to_dt_assert_exact fails exactly when the number of ticks is farther
\* than the tolerance from the nearest integer, whether it lies just above or
\* just below it, and otherwise returns that nearest integer.
C21_NearestInteger ==
    exact_call /= NoExactCall =>
        LET nearest == PyRound(exact_call.time, Grain)
            off == Abs(exact_call.time - nearest * Grain)
        IN  /\ (exact_call.raised /= "") <=> (off > AbsoluteError)
            /\ exact_call.raised = "" => exact_call.ret = Some(nearest)

\* ------------------------------------------------------------------- C22
\* C22: when BarriersToDelays meets an operation whose calibrated length is
\* not a whole number of dt within the tolerance, the run of the pass manager
\* aborts at that node with an error: no dag is returned, no later pass runs,
\* and the input dag is left as it was.
C22_FailFast ==
    [][/\ (/\ exact_call'.time /= 0
           /\ visited' /= visited \/ pc' /= pc
           /\ pm_index = 1
           /\ Abs(exact_call'.time - PyRound(exact_call'.time, Grain) * Grain)
                 > AbsoluteError)
          => /\ pm_error' = "RuntimeError"
             /\ pc' = "raised"
             /\ visited' = visited
       /\ pm_error' /= ""
          => /\ pm_ran' = <<>>
             /\ pm_index' = 1
             /\ pm_property_set' = None
             /\ pm_dag' = pm_input
             /\ pm_input' = pm_input]_vars

\* An error raised at the second node of a circuit: the output under
\* construction is not empty, and nothing was returned or run.
C22_Witness ==
    /\ pm_error = "RuntimeError"
    /\ Abs(exact_call.time - PyRound(exact_call.time, Grain) * Grain) > AbsoluteError
    /\ Len(visited) >= 1
    /\ output_dag_circuit /= <<>>
    /\ pm_ran = <<>>
    /\ pm_dag = pm_input

\* ------------------------------------- one sequence, several pass managers

\* The pipeline instances that share dd_sequence.
Threads == {1, 2}

\* Each instance asks can_be_used_on_duration(total, (q,)) for a delay it has
\* met, then calls circuit(total, (q,)) if the answer is True.
SharedInit ==
    /\ B2DIdle
    /\ MergeIdle
    /\ FlagIdle
    /\ DDIdle
    /\ PMIdle
    /\ seq_call = NoCall
    /\ \E m \in GateDurations \cup PulseDurations :
          \E component \in {GateComponent(m), PulseComponent(m)} :
             dd_sequence = BaseHahnSpinEcho(component, None, None)
    /\ pm_input = <<>>
    /\ pm_error = ""
    /\ exact_call = NoExactCall
    /\ ctor_args = NoCtor
    /\ build_calls \in
          [Threads -> [pc : {"check"}, total_duration_dt : 0..MaxTotal, q : Qubits,
                       i : {1}, circuit : {<<>>}, duration_to_scale_dt : {0},
                       total_scale : {0}]]
    /\ twin_property_set = <<>>
    /\ twin_output = <<>>

SharedStep(t, call) ==
    /\ build_calls' = [build_calls EXCEPT ![t] = call]
    /\ UNCHANGED <<b2dVars, mergeVars, seq_call, flagVars, ddVars, pmVars, pm_input,
                   pm_error, exact_call, ctor_args, twin_property_set, twin_output>>

\* can_be_used_on_duration
SharedCheck ==
    \E t \in Threads :
        LET c == build_calls[t]
        IN  /\ c.pc = "check"
            /\ SharedStep(t, [c EXCEPT !.pc =
                                 IF CanBeUsedOnDuration(dd_sequence, c.total_duration_dt, c.q)
                                 THEN "circuit" ELSE "refused"])
            /\ UNCHANGED dd_sequence

\* circuit(): total_scale, fixed_duration_dt and duration_to_scale_dt.
SharedEnter ==
    \E t \in Threads :
        LET c == build_calls[t]
        IN  /\ c.pc = "circuit"
            /\ SharedStep(t, [c EXCEPT !.pc = "loop",
                                 !.total_scale = TotalScale(dd_sequence.relative_scales),
                                 !.duration_to_scale_dt =
                                     DurationToScale(dd_sequence, c.total_duration_dt, c.q)])
            /\ UNCHANGED dd_sequence

\* circuit(): one turn of the loop.
SharedLoop ==
    \E t \in Threads :
        LET c == build_calls[t]
            r == CircuitStep([self |-> dd_sequence, ret |-> c.circuit], c.i,
                             c.duration_to_scale_dt, c.total_scale, c.q)
        IN  /\ c.pc = "loop"
            /\ c.i <= Len(dd_sequence.sequence)
            /\ dd_sequence' = r.self
            /\ SharedStep(t, [c EXCEPT !.i = c.i + 1, !.circuit = r.ret])

\* circuit(): return circuit.
SharedReturn ==
    \E t \in Threads :
        LET c == build_calls[t]
        IN  /\ c.pc = "loop"
            /\ c.i > Len(dd_sequence.sequence)
            /\ SharedStep(t, [c EXCEPT !.pc = "returned"])
            /\ UNCHANGED dd_sequence

SharedNext == SharedCheck \/ SharedEnter \/ SharedLoop \/ SharedReturn

SpecShared == SharedInit /\ [][SharedNext]_vars

\* ------------------------------------------------------------------- C23
\* C23: a sequence shared by pipeline instances that run at the same time is
\* never modified: can_be_used_on_duration and circuit change neither the
\* components, nor the weights, nor the duration of any component, and under
\* every interleaving each circuit call returns the fragment it returns when
\* it runs alone.
C23_SharedReadOnly ==
    [][/\ dd_sequence' = dd_sequence
       /\ \A t \in Threads :
             build_calls'[t].pc = "returned" =>
                build_calls'[t].circuit =
                    Circuit(dd_sequence, build_calls'[t].total_duration_dt,
                            build_calls'[t].q).ret]_vars

\* One instance has returned its fragment while the other, building for another
\* duration, had scaled its first delay only.
C23_Witness ==
    /\ build_calls[1].pc = "returned"
    /\ build_calls[2].pc = "loop"
    /\ build_calls[2].i = 2
    /\ build_calls[1].total_duration_dt /= build_calls[2].total_duration_dt
    /\ build_calls[1].circuit[1].duration /= build_calls[2].circuit[1].duration

\* ----------------------------------------------------- sequence constructors

\* A float x is kept as the integer part of x * FloatUnit.
FloatUnit == 1000

\* math.pi
Pi == 3142

\* The terms of the series of cos after the k-th: y2 is y * y, term the k-th.
RECURSIVE CosTerms(_, _, _)
CosTerms(y2, term, k) ==
    IF k > 8 THEN 0
    ELSE LET next == (term * y2) \div ((2 * k - 1) * (2 * k) * FloatUnit)
         IN  (IF k % 2 = 1 THEN 0 - next ELSE next) + CosTerms(y2, next, k + 1)

Cos(y) == FloatUnit + CosTerms((y * y) \div FloatUnit, FloatUnit, 1)

\* sin(pi * i / (2 * repetition_number)) ** 2, as (1 - cos(pi * i / repetition_number)) / 2
Offset(i, repetition_number) ==
    (FloatUnit - Cos((Pi * i) \div repetition_number)) \div 2

\* offsets_scales[i]
OffsetScale(i, repetition_number) ==
    Offset(i + 1, repetition_number) - Offset(i, repetition_number)

\* The body of `for i in range(1, repetition_number)`, from i on.
RECURSIVE UhrigExtend(_, _, _, _)
UhrigExtend(lists, component, i, repetition_number) ==
    IF i >= repetition_number THEN lists
    ELSE UhrigExtend(
             [sequence |-> lists.sequence \o <<component, DelayComponent(1)>>,
              relative_scales |-> lists.relative_scales
                                    \o <<None, Some(OffsetScale(i, repetition_number))>>],
             component, i + 1, repetition_number)

\* BaseUhrigDynamicalDecouplingSequence(component, pre_rotation, post_rotation,
\* repetition_number)
BaseUhrig(component, pre_rotation, post_rotation, repetition_number) ==
    LET lists0 ==
            IF repetition_number = 1
            THEN [sequence |-> <<DelayComponent(1), component, DelayComponent(1)>>,
                  relative_scales |-> <<Some(1), None, Some(1)>>]
            ELSE UhrigExtend(
                     [sequence |-> <<DelayComponent(1)>>,
                      relative_scales |-> <<Some(OffsetScale(0, repetition_number))>>],
                     component, 1, repetition_number)
        lists1 == IF pre_rotation /= None
                  THEN [sequence |-> <<pre_rotation[1]>> \o lists0.sequence,
                        relative_scales |-> <<None>> \o lists0.relative_scales]
                  ELSE lists0
        lists2 == IF post_rotation /= None
                  THEN [sequence |-> Append(lists1.sequence, post_rotation[1]),
                        relative_scales |-> Append(lists1.relative_scales, None)]
                  ELSE lists1
    IN  SequenceInit(lists2.sequence, lists2.relative_scales)

\* The components a caller can hand to a constructor.
Components ==
    {DelayComponent(1)} \cup {GateComponent(m) : m \in GateDurations}
        \cup {PulseComponent(m) : m \in PulseDurations}

\* The entries of a relative_scales argument: None or a float, 0 included.
ScaleEntries == {None} \cup {Some(w) : w \in 0..MaxScale}

\* No sequence has been constructed yet.
CtorInit ==
    /\ B2DIdle
    /\ MergeIdle
    /\ SeqIdle
    /\ RestIdle

\* BaseDynamicalDecouplingSequence(sequence, relative_scales), with
\* relative_scales None or a list of any length.
CtorBase ==
    /\ ctor_args = NoCtor
    /\ \E n \in 0..MaxNodes, k \in 0..(MaxNodes + 1) :
          \E sequence \in [1..n -> Components], relative_scales \in [1..k -> ScaleEntries] :
             /\ ctor_args' = [NoCtor EXCEPT !.class = "base", !.sequence = sequence,
                                 !.relative_scales = relative_scales]
             /\ dd_sequence' = SequenceInit(sequence, relative_scales)
    /\ UNCHANGED <<b2dVars, mergeVars, seq_call, flagVars, ddVars, pmVars, pm_input,
                   pm_error, exact_call, build_calls, twin_property_set, twin_output>>

\* BaseUhrigXPreRotationDynamicalDecouplingSequence(backend, component,
\* repetition_number, add_pre_post_rotations)
CtorUhrig ==
    /\ ctor_args = NoCtor
    /\ \E m \in PulseDurations, rot \in GateDurations, repetition_number \in 1..MaxRep,
          add_pre_post_rotations \in BOOLEAN :
          LET pre_rotation == IF add_pre_post_rotations THEN Some(GateComponent(rot)) ELSE None
              post_rotation == IF add_pre_post_rotations THEN Some(GateComponent(rot)) ELSE None
          IN  /\ ctor_args' = [NoCtor EXCEPT !.class = "uhrig",
                                  !.sequence = <<PulseComponent(m)>>,
                                  !.repetition_number = repetition_number,
                                  !.add_pre_post_rotations = add_pre_post_rotations]
              /\ dd_sequence' = BaseUhrig(PulseComponent(m), pre_rotation, post_rotation,
                                          repetition_number)
    /\ UNCHANGED <<b2dVars, mergeVars, seq_call, flagVars, ddVars, pmVars, pm_input,
                   pm_error, exact_call, build_calls, twin_property_set, twin_output>>

CtorNext == CtorBase \/ CtorUhrig

SpecCtor == CtorInit /\ [][CtorNext]_vars

\* The sequence holds one pair per supplied component, in the supplied order:
\* None for a component that is not scalable, a positive number for a scalable
\* one, 1 when none was supplied.
OnePairPerComponent ==
    /\ dd_sequence.sequence = ctor_args.sequence
    /\ Len(dd_sequence.relative_scales) = Len(ctor_args.sequence)
    /\ \A i \in DOMAIN ctor_args.sequence :
          LET weight == dd_sequence.relative_scales[i]
              supplied == IF i \in DOMAIN ctor_args.relative_scales
                          THEN ctor_args.relative_scales[i] ELSE None
          IN  IF ctor_args.sequence[i].is_scalable
              THEN /\ weight /= None
                   /\ weight[1] > 0
                   /\ supplied = None => weight = Some(1)
                   /\ supplied /= None => weight = supplied
              ELSE weight = None

\* The relative_scales argument is None or empty, or has an entry for every
\* component, positive or None for the scalable ones.
ScalesWellFormed ==
    \/ ctor_args.relative_scales = <<>>
    \/ /\ Len(ctor_args.relative_scales) >= Len(ctor_args.sequence)
       /\ \A i \in DOMAIN ctor_args.sequence :
             (ctor_args.sequence[i].is_scalable /\ ctor_args.relative_scales[i] /= None)
                => ctor_args.relative_scales[i][1] > 0

\* ------------------------------------------------------------------- C24
\* C24: after constructing a sequence from any component list and any
\* relative_scales argument, the sequence holds one (component, weight) pair
\* per supplied component, in the supplied order, the weight None for every
\* component that is not scalable and positive for every scalable one (1 when
\* none was supplied).
C24_AnyScales ==
    ctor_args.class = "base" => OnePairPerComponent

\* C24, amended: the same when relative_scales is None or empty, or has an
\* entry for every component with a positive number or None for every
\* scalable one.
C24_WellFormedScales ==
    (ctor_args.class = "base" /\ ScalesWellFormed) => OnePairPerComponent

\* A list of scales longer than the component list, with a scale supplied for
\* a component that is not scalable and none for a delay.
C24_Witness ==
    /\ ctor_args.class = "base"
    /\ Len(ctor_args.relative_scales) > Len(ctor_args.sequence)
    /\ \E i, j \in DOMAIN ctor_args.sequence :
          /\ ~ctor_args.sequence[i].is_scalable
          /\ ctor_args.relative_scales[i] /= None
          /\ ctor_args.sequence[j].is_scalable
          /\ ctor_args.relative_scales[j] = None
          /\ dd_sequence.relative_scales[j] = Some(1)

\* ------------------------------------------------------------------- C25
\* C25: in a Uhrig sequence built with repetition_number = n >= 1 the pi-pulse
\* component occurs exactly n times, separated and surrounded by n + 1
\* scalable delays.
C25_UhrigCounts ==
    ctor_args.class = "uhrig" =>
        /\ Cardinality({i \in FixedAt : dd_sequence.sequence[i] = ctor_args.sequence[1]})
              = ctor_args.repetition_number
        /\ Cardinality(ScalableAt) = ctor_args.repetition_number + 1

\* --------------------------------------- DelayToDD and the analysis map

\* A slip: a delay flagged as acting on the ground state is left alone.
DDPassRunSkipGround(analysis, seq, dag) ==
    LET out[i \in 0..Len(dag)] ==
            IF i = 0 THEN <<>>
            ELSE out[i - 1] \o (IF IsDelay(dag[i]) /\ analysis[i]
                                THEN <<dag[i]>>
                                ELSE DelaysToDDRun(seq, <<dag[i]>>).out)
    IN  [seq |-> seq, out |-> out[Len(dag)]]

\* run(dag) of a pass whose self.property_set is analysis and whose
\* self._sequence is seq: run never reads self.property_set.
DDPassRun(analysis, seq, dag) == DelaysToDDRun(seq, dag)

\* The operation nodes of a graph handed to the last two passes.
TwinNodes ==
    {Delay(q, k, "dt") : q \in Qubits, k \in 0..MaxDur}
        \cup {GateNode({q}, 1) : q \in Qubits} \cup {ResetNode(q) : q \in Qubits}

\* The flagging pass is about to run on a graph of at most MaxNodes nodes; the
\* last pass holds a spin echo sequence.
TwinInit ==
    /\ B2DIdle
    /\ MergeIdle
    /\ PMIdle
    /\ ExtraIdle
    /\ seq_call = NoCall
    /\ \E m \in GateDurations \cup PulseDurations :
          \E component \in {GateComponent(m), PulseComponent(m)} :
             dd_sequence = BaseHahnSpinEcho(component, None, None)
    /\ \E n \in 0..MaxNodes : flag_dag \in [1..n -> TwinNodes]
    /\ flag_pc = 1
    /\ is_in_fundamental_state = [q \in Qubits |-> TRUE]
    /\ property_set = <<>>
    /\ DDIdle

\* FlagFundamentalStateOperations.run(dag)
TwinFlag ==
    /\ dd_pc = "idle"
    /\ property_set' = FlagRun(flag_dag)
    /\ is_in_fundamental_state' =
          FlagAll([ground |-> [q \in Qubits |-> TRUE], ps |-> <<>>], flag_dag).ground
    /\ flag_pc' = Len(flag_dag) + 1
    /\ dd_pc' = "loop"
    /\ UNCHANGED <<flag_dag, dd_nodes, dd_output, seqVars, b2dVars, mergeVars, pmVars,
                   extraVars>>

\* DelayToDynamicalDecouplingSequencePass.run(dag) under the flags the
\* flagging pass left.
TwinRun ==
    /\ dd_pc = "loop"
    /\ dd_nodes' = flag_dag
    /\ dd_output' = DDPassRun(property_set, dd_sequence, flag_dag).out
    /\ dd_sequence' = DDPassRun(property_set, dd_sequence, flag_dag).seq
    /\ dd_pc' = "done"
    /\ UNCHANGED <<seq_call, flagVars, b2dVars, mergeVars, pmVars, extraVars>>

\* A second run on the same graph with the same sequence, under any other
\* flags for the nodes of the graph.
TwinRunOther ==
    /\ dd_pc = "done"
    /\ twin_output = None
    /\ \E analysis \in [DOMAIN dd_nodes -> BOOLEAN] :
          /\ twin_property_set' = analysis
          /\ twin_output' = Some(DDPassRun(analysis, dd_sequence, dd_nodes).out)
          /\ dd_sequence' = DDPassRun(analysis, dd_sequence, dd_nodes).seq
    /\ UNCHANGED <<seq_call, flagVars, ddVars, b2dVars, mergeVars, pmVars, pm_input,
                   pm_error, exact_call, ctor_args, build_calls>>

TwinNext == TwinFlag \/ TwinRun \/ TwinRunOther

SpecTwin == TwinInit /\ [][TwinNext]_vars

\* ------------------------------------------------------------------- C26
\* C26: DelayToDD does not act on the analysis map. Its output depends only on
\* the input graph and the sequence: two runs on the same graph with the same
\* sequence that differ only in the flags give identical outputs, both the
\* output of the rewrite rule, so that a delay flagged as acting on the ground
\* state is still replaced whenever can_be_used_on_duration holds for it.
C26_FlagsIgnored ==
    twin_output /= None =>
        /\ twin_output[1] = dd_output
        /\ dd_output = RewrittenAll(dd_nodes)
        /\ \A i \in DOMAIN dd_nodes :
              (/\ IsDelay(dd_nodes[i])
               /\ property_set[i] \/ twin_property_set[i]
               /\ \A q \in dd_nodes[i].qargs :
                     CanBeUsedOnDuration(dd_sequence, Ticks(dd_nodes[i]), q))
                 => /\ Rewritten(dd_nodes[i]) /= <<dd_nodes[i]>>
                    /\ Len(dd_output) > Len(dd_nodes)

\* Two runs on a graph with a delay on a ground-state qubit that the sequence
\* can be used on, flagged in one run and not in the other, and replaced.
C26_Witness ==
    /\ twin_output /= None
    /\ \E i \in DOMAIN dd_nodes :
          /\ IsDelay(dd_nodes[i])
          /\ property_set[i]
          /\ ~twin_property_set[i]
          /\ \A q \in dd_nodes[i].qargs :
                CanBeUsedOnDuration(dd_sequence, Ticks(dd_nodes[i]), q)
    /\ \E j \in DOMAIN dd_output : dd_output[j].name \in {"gate", "pulse"}
    /\ \E j \in DOMAIN twin_output[1] : twin_output[1][j].name \in {"gate", "pulse"}

\* ------------------------------------- the timeline of BarriersToDelays

\* The start time of the node at position idx of the graph g on qubit q: the
\* sum of the durations of the nodes that precede it on the wire of q.
StartTime(g, idx, q) == TotalTime(OnQubit(SubSeq(g, 1, idx - 1), q))

\* The time at which the node at position idx of g ends on qubit q.
EndTime(g, idx, q) == StartTime(g, idx, q) + NodeTime(g[idx])

\* The position in the output of the node at position i of the input, a node
\* that is no barrier: the output holds the nodes of the input that are no
\* barrier in the order of the input, among delays.
OutIndex(i) ==
    LET k == Len(SelectSeq(SubSeq(InputDag, 1, i), LAMBDA n : n.name # "barrier"))
    IN  CHOOSE idx \in DOMAIN output_dag_circuit :
            /\ ~IsDelay(output_dag_circuit[idx])
            /\ Len(SelectSeq(SubSeq(output_dag_circuit, 1, idx),
                             LAMBDA n : ~IsDelay(n))) = k

\* ------------------------------------------------------------------- C27
\* C27: for every barrier of the input and any operations A before it and B
\* after it that act on qubits the barrier covers, in the timeline of the
\* output of BarriersToDelays B starts no earlier than A ends, for "asap" and
\* for "alap".
C27_BarrierKeptAsTiming ==
    pc = "done" =>
        \A b \in DOMAIN InputDag :
            InputDag[b].name = "barrier" =>
                \A a \in 1..(b - 1), c \in (b + 1)..Len(InputDag) :
                    (InputDag[a].name # "barrier" /\ InputDag[c].name # "barrier") =>
                        /\ output_dag_circuit[OutIndex(a)] = InputDag[a]
                        /\ output_dag_circuit[OutIndex(c)] = InputDag[c]
                        /\ \A qa \in InputDag[a].qargs \cap InputDag[b].qargs,
                              qc \in InputDag[c].qargs \cap InputDag[b].qargs :
                              EndTime(output_dag_circuit, OutIndex(a), qa)
                                  <= StartTime(output_dag_circuit, OutIndex(c), qc)

\* The end of a run on a gate on one qubit, a barrier on both qubits, then a
\* gate on the other qubit, which starts when the first gate ends.
C27_Witness ==
    /\ pc = "done"
    /\ Len(InputDag) = 3
    /\ InputDag[1].name = "gate"
    /\ InputDag[2] = BarrierNode(Qubits)
    /\ InputDag[3].name = "gate"
    /\ InputDag[1].qargs \cap InputDag[3].qargs = {}
    /\ \A qa \in InputDag[1].qargs, qc \in InputDag[3].qargs :
          /\ EndTime(output_dag_circuit, OutIndex(1), qa) > 0
          /\ EndTime(output_dag_circuit, OutIndex(1), qa)
                = StartTime(output_dag_circuit, OutIndex(3), qc)

\* ------------------------------------------------------------------- C28
\* C28: in the output of BarriersToDelays, for every operation acting on two
\* or more qubits, the elapsed time before the operation (the sum of the
\* durations of the delays and operations preceding it on a qubit) is the same
\* on all the qubits it acts on, for "asap" and for "alap".
C28_MultiQubitAligned ==
    pc = "done" =>
        \A idx \in DOMAIN output_dag_circuit :
            Cardinality(output_dag_circuit[idx].qargs) >= 2 =>
                \A q1, q2 \in output_dag_circuit[idx].qargs :
                    StartTime(output_dag_circuit, idx, q1)
                        = StartTime(output_dag_circuit, idx, q2)

\* The end of an "alap" run on a gate on one qubit followed by a gate on both
\* qubits: the second gate starts on both when the first one ends.
C28_Witness ==
    /\ pc = "done"
    /\ scheduling_method = "alap"
    /\ Len(InputDag) = 2
    /\ InputDag[1].name = "gate" /\ Cardinality(InputDag[1].qargs) = 1
    /\ InputDag[2].name = "gate" /\ InputDag[2].qargs = Qubits
    /\ \A q \in Qubits :
          StartTime(output_dag_circuit, OutIndex(2), q) = InputDag[1].length * TickNs

\* ------------------------------------------------------------------- C29
\* C29: for every input graph, in the output of MergeDelays applied to the
\* output of BarriersToDelays every delay node has a strictly positive whole
\* number of dt as duration: the delays of duration 0 that BarriersToDelays
\* adds at barriers and at the final flush do not survive merging.
C29_NoZeroDelayAfterMerge ==
    (Len(pm_ran) \in {2, 3} /\ pm_ran[2] = "MergeDelaysPass") =>
        /\ pm_dag = MergeDelaysRun(BarriersToDelaysRun(scheduling_method, pm_input))
        /\ \A i \in DOMAIN pm_dag :
              IsDelay(pm_dag[i]) =>
                  /\ pm_dag[i].unit = "dt"
                  /\ pm_dag[i].duration \in Nat \ {0}

\* MergeDelays has run on an output of BarriersToDelays that held delays of
\* duration 0 from a barrier and from the final flush, and a delay that lasts;
\* the merged graph still holds a delay.
C29_Witness ==
    LET scheduled == BarriersToDelaysRun(scheduling_method, pm_input)
    IN  /\ Len(pm_ran) = 2
        /\ pm_ran[2] = "MergeDelaysPass"
        /\ \E i \in DOMAIN pm_input : pm_input[i].name = "barrier"
        /\ Cardinality({i \in DOMAIN scheduled :
                           IsDelay(scheduled[i]) /\ scheduled[i].duration = 0}) >= 2
        /\ \E i \in DOMAIN scheduled :
              IsDelay(scheduled[i]) /\ scheduled[i].duration > 0
        /\ \E i \in DOMAIN pm_dag : IsDelay(pm_dag[i])

\* ------------------------------------------------------------------- C30
\* C30: no negative delay is produced: for every sequence whose scalable
\* weights are positive and every duration the sequence can be used on (the
\* delays DelayToDD replaces), each scaled delay of the built fragment has a
\* non-negative whole number of dt as duration and each fixed component keeps
\* its own duration.
C30_NoNegativeDelay ==
    seq_call.op = "circuit" =>
        /\ CanBeUsedOnDuration(dd_sequence, seq_call.duration, seq_call.qarg)
        /\ Len(seq_call.circuit) = Len(dd_sequence.sequence)
        /\ \A i \in ScalableAt :
              /\ seq_call.circuit[i].name = "delay"
              /\ seq_call.circuit[i].duration \in Nat
        /\ \A i \in FixedAt :
              /\ seq_call.circuit[i].name = dd_sequence.sequence[i].name
              /\ seq_call.circuit[i].duration
                    = dd_sequence.sequence[i].durations[seq_call.qarg]

\* A fragment built with one dt to share between two delays of different
\* weights around a fixed component: one delay lasts 1 dt, the other 0.
C30_Witness ==
    /\ seq_call.op = "circuit"
    /\ FixedAt /= {}
    /\ seq_call.duration = FixedSum(seq_call.qarg) + 1
    /\ \E i, j \in ScalableAt :
          /\ dd_sequence.relative_scales[i] /= dd_sequence.relative_scales[j]
          /\ seq_call.circuit[i].duration = 1
          /\ seq_call.circuit[j].duration = 0

====
